---- MODULE Spec2Model ----
(***************************************************************************)
(* Work Mode task engine (TaskService): metadata extractors, sync         *)
(* reconciliation, filtered retrieval, completion with auto-link, manual  *)
(* creation; and the insights pipeline (InsightsService): recent          *)
(* documents, activity insights, the plan asked of the LLM and its        *)
(* fallback.  Beside them: parse_schedule_interval of the Celery app,     *)
(* study attempts, search space links, the activity reminder task, sync   *)
(* calls that overlap in separate transactions, and the demo tasks route. *)
(* Times are whole hours; every handler runs at the instant `now` of the  *)
(* model clock.                                                           *)
(***************************************************************************)
EXTENDS Integers, Sequences, FiniteSets, TLC

\* ---------------------------------------------------------------- bounds
MaxTicks == 1
MaxTasks == 2
MaxLinkTasks == 1

\* ------------------------------------------------------ program constants
LinkLimit == 5
LinkWindowHours == 2

\* ----------------------------------------------------------- JSON values
\* A JSON value is [k, v]: k is its Python type, v its text ("" when none).
JAbsent == [k |-> "absent", v |-> ""]
JNull == [k |-> "null", v |-> ""]
JStr(s) == [k |-> "str", v |-> s]
JInt(s) == [k |-> "int", v |-> s]
JDict == [k |-> "dict", v |-> ""]
JList == [k |-> "list", v |-> ""]

\* A name is a JSON value whose text is a tuple of characters, so that
\* upper() and the substring test are computed on it.
AbsentN == [k |-> "absent", v |-> <<>>]
NullN == [k |-> "null", v |-> <<>>]
IntN == [k |-> "int", v |-> <<>>]
StrN(cs) == [k |-> "str", v |-> cs]

LowerCase == <<"a","b","c","d","e","f","g","h","i","j","k","l","m",
               "n","o","p","q","r","s","t","u","v","w","x","y","z">>
UpperCase == <<"A","B","C","D","E","F","G","H","I","J","K","L","M",
               "N","O","P","Q","R","S","T","U","V","W","X","Y","Z">>

Letters == {LowerCase[i] : i \in 1..26}
UpperOf == [c \in Letters |-> UpperCase[CHOOSE i \in 1..26 : LowerCase[i] = c]]
UpperChar(c) == IF c \in Letters THEN UpperOf[c] ELSE c

\* str.upper()
Upper(cs) == [i \in 1..Len(cs) |-> UpperChar(cs[i])]

\* sub in s
Contains(sub, s) ==
    \E i \in 0..(Len(s) - Len(sub)) :
        \A j \in 1..Len(sub) : s[i + j] = sub[j]

\* Result of a Python expression: a value, or an exception raised.
Ok(x) == [exc |-> FALSE, val |-> x]
Raised(x) == [exc |-> TRUE, val |-> x]

None == "None"
NoTime == 0

\* character tuples of the literals the code compares with
cTODO == <<"T","O","D","O">>
cDONE == <<"D","O","N","E">>
cCLOSED == <<"C","L","O","S","E","D">>
cCOMPLETED == <<"C","O","M","P","L","E","T","E","D">>
cRESOLVED == <<"R","E","S","O","L","V","E","D">>
cHIGHEST == <<"H","I","G","H","E","S","T">>
cBLOCKER == <<"B","L","O","C","K","E","R">>
cHIGH == <<"H","I","G","H">>
cMEDIUM == <<"M","E","D","I","U","M">>
cLOW == <<"L","O","W">>

\* ------------------------------------------------------------- metadata
\* document_metadata, flattened: nested keys are path_named fields; the
\* children of a value that is not a dict are Absent.
EmptyMeta ==
    [type |-> JAbsent, issue |-> JAbsent, id |-> JAbsent, issue_key |-> JAbsent,
     url |-> JAbsent, link |-> JAbsent, priority |-> JAbsent, dueDate |-> JAbsent,
     state |-> JAbsent, state_name |-> AbsentN,
     fields |-> JAbsent, fields_priority |-> JAbsent,
     fields_priority_name |-> AbsentN, fields_status |-> JAbsent,
     fields_status_name |-> AbsentN, fields_duedate |-> JAbsent]

\* dict.get(key): a missing key reads as None
Get(x) == IF x.k = "absent" THEN JNull ELSE x

\* Python truthiness of a JSON value
Truthy(x) ==
    CASE x.k \in {"absent", "null"} -> FALSE
      [] x.k = "str" -> x.v # ""
      [] x.k = "int" -> x.v # "0"
      [] OTHER -> TRUE

\* a or b
OrElse(a, b) == IF Truthy(a) THEN a ELSE b

\* the Python string of a JSON value, None when it is null
PyStr(x) == IF x.k = "str" THEN x.v ELSE None

\* str.replace("Z", "+00:00") on the date strings of the model
ReplaceZ(s) ==
    IF s = "2025-06-02T09:00:00Z" THEN "2025-06-02T09:00:00+00:00" ELSE s

\* datetime.fromisoformat: the day number of a well-formed string
FromIsoFormat(s) ==
    CASE s = "2025-06-01" -> Ok(1)
      [] s \in {"2025-06-02T09:00:00+00:00", "2025-06-02T09:00:00Z"} -> Ok(2)
      [] OTHER -> Raised(NoTime)

\* ----------------------------------------------------------- extractors
\* bug: Slack records that carry the issue marker are classified as tasks
_is_task_document_slack(metadata, connector_type) ==
    CASE connector_type = "LINEAR" ->
            Get(metadata.type) = JStr("issue") \/ metadata.issue.k # "absent"
      [] connector_type = "JIRA" ->
            Get(metadata.issue_key).k # "null" \/ metadata.fields.k # "absent"
      [] connector_type = "SLACK" -> Get(metadata.type) = JStr("issue")
      [] OTHER -> FALSE

\* TaskService._is_task_document
_is_task_document(metadata, connector_type) ==
    CASE connector_type = "LINEAR" ->
            Get(metadata.type) = JStr("issue") \/ metadata.issue.k # "absent"
      [] connector_type = "JIRA" ->
            Get(metadata.issue_key).k # "null" \/ metadata.fields.k # "absent"
      [] connector_type = "SLACK" -> FALSE
      [] OTHER -> FALSE

\* bug: HIGH is tested before HIGHEST and BLOCKER
_extract_priority_high_first(metadata, connector_type) ==
    CASE connector_type = "LINEAR" ->
            LET priority_num == Get(metadata.priority) IN
            CASE priority_num = JInt("0") -> Ok("URGENT")
              [] priority_num = JInt("1") -> Ok("HIGH")
              [] priority_num = JInt("2") -> Ok("MEDIUM")
              [] priority_num = JInt("3") -> Ok("LOW")
              [] OTHER -> Ok(None)
      [] connector_type = "JIRA" ->
            IF metadata.fields.k \notin {"absent", "dict"} THEN Raised(None)
            ELSE IF metadata.fields_priority.k \notin {"absent", "dict"} THEN Raised(None)
            ELSE IF metadata.fields_priority_name.k \notin {"absent", "str"} THEN Raised(None)
            ELSE LET priority_name == Upper(metadata.fields_priority_name.v) IN
                 CASE Contains(cHIGH, priority_name) -> Ok("HIGH")
                   [] Contains(cHIGHEST, priority_name)
                        \/ Contains(cBLOCKER, priority_name) -> Ok("URGENT")
                   [] Contains(cMEDIUM, priority_name) -> Ok("MEDIUM")
                   [] Contains(cLOW, priority_name) -> Ok("LOW")
                   [] OTHER -> Ok(None)
      [] OTHER -> Ok(None)

\* TaskService._extract_priority
_extract_priority(metadata, connector_type) ==
    CASE connector_type = "LINEAR" ->
            LET priority_num == Get(metadata.priority) IN
            CASE priority_num = JInt("0") -> Ok("URGENT")
              [] priority_num = JInt("1") -> Ok("HIGH")
              [] priority_num = JInt("2") -> Ok("MEDIUM")
              [] priority_num = JInt("3") -> Ok("LOW")
              [] OTHER -> Ok(None)
      [] connector_type = "JIRA" ->
            \* metadata.get("fields", {}).get("priority", {}).get("name", "").upper()
            IF metadata.fields.k \notin {"absent", "dict"} THEN Raised(None)
            ELSE IF metadata.fields_priority.k \notin {"absent", "dict"} THEN Raised(None)
            ELSE IF metadata.fields_priority_name.k \notin {"absent", "str"} THEN Raised(None)
            ELSE LET priority_name == Upper(metadata.fields_priority_name.v) IN
                 CASE Contains(cHIGHEST, priority_name)
                        \/ Contains(cBLOCKER, priority_name) -> Ok("URGENT")
                   [] Contains(cHIGH, priority_name) -> Ok("HIGH")
                   [] Contains(cMEDIUM, priority_name) -> Ok("MEDIUM")
                   [] Contains(cLOW, priority_name) -> Ok("LOW")
                   [] OTHER -> Ok(None)
      [] OTHER -> Ok(None)

\* TaskService._extract_due_date; the bare except swallows every error
\* raised inside the try (replace on a non-string, a malformed date).
_extract_due_date(metadata, connector_type) ==
    CASE connector_type = "LINEAR" ->
            LET due_str == Get(metadata.dueDate) IN
            IF ~Truthy(due_str) THEN Ok(NoTime)
            ELSE IF due_str.k # "str" THEN Ok(NoTime)
            ELSE LET d == FromIsoFormat(ReplaceZ(due_str.v)) IN
                 IF d.exc THEN Ok(NoTime) ELSE d
      [] connector_type = "JIRA" ->
            IF metadata.fields.k \notin {"absent", "dict"} THEN Raised(NoTime)
            ELSE LET due_str == Get(metadata.fields_duedate) IN
                 IF ~Truthy(due_str) THEN Ok(NoTime)
                 ELSE IF due_str.k # "str" THEN Ok(NoTime)
                 ELSE LET d == FromIsoFormat(due_str.v) IN
                      IF d.exc THEN Ok(NoTime) ELSE d
      [] OTHER -> Ok(NoTime)

\* bug: the status name is not upper-cased
_extract_status_no_upper(metadata, connector_type) ==
    CASE connector_type = "LINEAR" ->
            IF metadata.state.k \notin {"absent", "dict"} THEN Raised(<<>>)
            ELSE IF metadata.state_name.k = "absent" THEN Ok(cTODO)
            ELSE IF metadata.state_name.k # "str" THEN Raised(<<>>)
            ELSE Ok(metadata.state_name.v)
      [] connector_type = "JIRA" ->
            IF metadata.fields.k \notin {"absent", "dict"} THEN Raised(<<>>)
            ELSE IF metadata.fields_status.k \notin {"absent", "dict"} THEN Raised(<<>>)
            ELSE IF metadata.fields_status_name.k = "absent" THEN Ok(cTODO)
            ELSE IF metadata.fields_status_name.k # "str" THEN Raised(<<>>)
            ELSE Ok(metadata.fields_status_name.v)
      [] OTHER -> Ok(cTODO)

\* TaskService._extract_status
_extract_status(metadata, connector_type) ==
    CASE connector_type = "LINEAR" ->
            IF metadata.state.k \notin {"absent", "dict"} THEN Raised(<<>>)
            ELSE IF metadata.state_name.k = "absent" THEN Ok(Upper(cTODO))
            ELSE IF metadata.state_name.k # "str" THEN Raised(<<>>)
            ELSE Ok(Upper(metadata.state_name.v))
      [] connector_type = "JIRA" ->
            IF metadata.fields.k \notin {"absent", "dict"} THEN Raised(<<>>)
            ELSE IF metadata.fields_status.k \notin {"absent", "dict"} THEN Raised(<<>>)
            ELSE IF metadata.fields_status_name.k = "absent" THEN Ok(Upper(cTODO))
            ELSE IF metadata.fields_status_name.k # "str" THEN Raised(<<>>)
            ELSE Ok(Upper(metadata.fields_status_name.v))
      [] OTHER -> Ok(cTODO)

\* status = "DONE" if status_raw in [...] else "UNDONE"
MapStatus(status_raw) ==
    IF status_raw \in {cDONE, cCLOSED, cCOMPLETED, cRESOLVED}
    THEN "DONE" ELSE "UNDONE"


\* ----------------------------------------------------- source documents
\* The metadata payloads the connectors index.  A documents row holds the
\* name of its payload; Metadata gives the payload itself.
MetaLinearDone ==
    [EmptyMeta EXCEPT !.type = JStr("issue"), !.id = JStr("1"),
                      !.state = JDict, !.state_name = StrN(<<"D","o","n","e">>),
                      !.priority = JInt("0"), !.dueDate = JStr("2025-06-01"),
                      !.url = JStr("https://linear.app/i/1")]

MetaLinearStarted ==
    [EmptyMeta EXCEPT !.issue = JDict,
                      !.state = JDict,
                      !.state_name = StrN(<<"I","n"," ","P","r","o","g","r","e","s","s">>),
                      !.dueDate = JStr("2025-06-02T09:00:00Z")]

MetaJiraResolved ==
    [EmptyMeta EXCEPT !.issue_key = JStr("1"), !.fields = JDict,
                      !.fields_status = JDict,
                      !.fields_status_name = StrN(<<"r","e","s","o","l","v","e","d">>),
                      !.fields_priority = JDict,
                      !.fields_priority_name = StrN(<<"H","i","g","h","e","s","t">>),
                      !.fields_duedate = JStr("2025-06-02T09:00:00+00:00"),
                      !.link = JStr("https://jira/browse/1")]

MetaJiraNoPriority ==
    [EmptyMeta EXCEPT !.issue_key = JStr("2"), !.fields = JDict,
                      !.fields_status = JDict,
                      !.fields_status_name = StrN(<<"O","p","e","n">>),
                      !.fields_priority = JNull]

MetaSlackMessage ==
    [EmptyMeta EXCEPT !.type = JStr("issue"), !.id = JStr("1")]

\* --------------------------------------------------------------- state
VARIABLES
    tasks,      \* the tasks table: a sequence, tasks[i].id = i
    docs,       \* the documents table, in scan order
    chats,      \* the chats table, in scan order
    now,        \* the clock, in hours
    ret,        \* the last call and what it returned
    everDone,   \* ids of the tasks whose status has been DONE (history)
    probe,      \* a metadata payload under test and what the extractors gave
    insight,    \* the last call of generate_insights_and_plan and its outcome
    materials,  \* the study_materials table
    attempt_log, \* the record_attempt calls that returned (history)
    links,      \* the searchspace_links table, in insertion order
    reminders,  \* the last run of send_all_activity_reminders
    sessions,   \* the sync calls in flight, each in its own transaction
    schedule    \* the last interval string parsed and what came back

vars == <<tasks, docs, chats, now, ret, everDone, probe, insight,
          materials, attempt_log, links, reminders, sessions, schedule>>

\* the state of the services beside the task engine and the insights pipeline
services == <<materials, attempt_log, links, reminders, sessions, schedule>>

\* no study material, no link, no reminder run, no sync in flight, nothing parsed
NoRun ==
    [op |-> "none", queried |-> FALSE, rows |-> <<>>, attempts |-> <<>>,
     result |-> [status |-> "", total_users |-> 0, error |-> ""]]
NoSchedule ==
    [op |-> "none", interval |-> <<>>, exc |-> FALSE, error |-> "",
     value |-> [minute |-> <<>>, hour |-> <<>>]]
ServicesIdle ==
    /\ materials = <<>>
    /\ attempt_log = <<>>
    /\ links = <<>>
    /\ reminders = NoRun
    /\ sessions = <<>>
    /\ schedule = NoSchedule

\* doc.document_metadata or {}; a documents row names its payload, and the
\* name "Probe" stands for the payload under test
Metadata(ref) ==
    CASE ref = "LinearDone" -> MetaLinearDone
      [] ref = "LinearStarted" -> MetaLinearStarted
      [] ref = "JiraResolved" -> MetaJiraResolved
      [] ref = "JiraNoPriority" -> MetaJiraNoPriority
      [] ref = "SlackMessage" -> MetaSlackMessage
      [] ref = "Probe" -> probe.metadata
      [] OTHER -> EmptyMeta

Users == {"u1", "u2"}

\* f"{connector_type}_CONNECTOR"
ConnectorDocType(connector_type) ==
    CASE connector_type = "LINEAR" -> "LINEAR_CONNECTOR"
      [] connector_type = "JIRA" -> "JIRA_CONNECTOR"
      [] connector_type = "SLACK" -> "SLACK_CONNECTOR"
      [] connector_type = "GITHUB" -> "GITHUB_CONNECTOR"
      [] OTHER -> "_CONNECTOR"

\* doc.content[:500] if doc.content else None; "LONG" stands for a text of
\* more than 500 characters and "LONG[:500]" for its first 500.
Description(content) ==
    CASE content \in {"", None} -> None
      [] content = "LONG" -> "LONG[:500]"
      [] OTHER -> content

\* bug: the lookup sees only committed rows (the new task is not flushed)
_get_task_by_external_id_committed(tbl, search_space_id, source_type, external_id) ==
    LET hits == {i \in 1..Len(tbl) :
                    /\ i <= Len(tasks)
                    /\ tbl[i].search_space_id = search_space_id
                    /\ tbl[i].source_type = source_type
                    /\ tbl[i].external_id = external_id}
    IN  CASE hits = {} -> Ok(0)
          [] Cardinality(hits) = 1 -> Ok(CHOOSE i \in hits : TRUE)
          [] OTHER -> Raised(0)

\* TaskService._get_task_by_external_id: scalar_one_or_none() gives the row,
\* None (0) when no row matches, and raises when several match.
_get_task_by_external_id(tbl, search_space_id, source_type, external_id) ==
    LET hits == {i \in 1..Len(tbl) :
                    /\ tbl[i].search_space_id = search_space_id
                    /\ tbl[i].source_type = source_type
                    /\ tbl[i].external_id = external_id}
    IN  CASE hits = {} -> Ok(0)
          [] Cardinality(hits) = 1 -> Ok(CHOOSE i \in hits : TRUE)
          [] OTHER -> Raised(0)

\* bug: every DONE sync stamps the task again
SyncCompletedAtReset(completed_at, status, t) ==
    IF status = "DONE" THEN t ELSE completed_at

\* bug: the `status == "DONE"` half of the condition is missing
SyncCompletedAtUnset(completed_at, status, t) ==
    IF completed_at = NoTime THEN t ELSE completed_at

\* bug: a task mapped back to UNDONE loses its completed_at
SyncCompletedAtClear(completed_at, status, t) ==
    IF status # "DONE" THEN NoTime
    ELSE IF completed_at = NoTime THEN t ELSE completed_at

\* the completed_at an existing task keeps or gets on the sync path
SyncCompletedAt(completed_at, status, t) ==
    IF status = "DONE" /\ completed_at = NoTime THEN t ELSE completed_at

\* bug: the fallback to str(doc.id) is missing
ExternalIdNoFallback(metadata, doc) ==
    PyStr(OrElse(Get(metadata.id), Get(metadata.issue_key)))

\* external_id = metadata.get("id") or metadata.get("issue_key") or str(doc.id)
ExternalId(metadata, doc) ==
    OrElse(OrElse(Get(metadata.id), Get(metadata.issue_key)),
           JStr(ToString(doc.id))).v

\* one iteration of the loop over connector_docs; st = [tbl, synced, done, exc]
SyncDoc(st, doc, search_space_id, user_id, connector_type, t) ==
    LET metadata == Metadata(doc.document_metadata) IN
    IF ~_is_task_document(metadata, connector_type) THEN st
    ELSE
    LET external_id == ExternalId(metadata, doc)
        title == doc.title
        description == Description(doc.content)
        priority == _extract_priority(metadata, connector_type)
        due_date == _extract_due_date(metadata, connector_type)
        status_raw == _extract_status(metadata, connector_type)
    IN
    IF priority.exc \/ due_date.exc \/ status_raw.exc THEN [st EXCEPT !.exc = TRUE]
    ELSE
    LET status == MapStatus(status_raw.val)
        existing_task == _get_task_by_external_id(st.tbl, search_space_id,
                                             connector_type, external_id)
    IN
    IF existing_task.exc THEN [st EXCEPT !.exc = TRUE]
    ELSE IF existing_task.val # 0 THEN
        LET i == existing_task.val IN
        [st EXCEPT
            !.tbl[i].title = title,
            !.tbl[i].description = description,
            !.tbl[i].priority = priority.val,
            !.tbl[i].due_date = due_date.val,
            !.tbl[i].status = status,
            !.tbl[i].external_metadata = doc.document_metadata,
            !.tbl[i].updated_at = t,
            !.tbl[i].completed_at = SyncCompletedAt(st.tbl[i].completed_at, status, t),
            !.synced = Append(st.synced, i),
            !.done = IF status = "DONE" THEN st.done \cup {i} ELSE st.done]
    ELSE
        LET i == Len(st.tbl) + 1
            new_task ==
                [id |-> i,
                 search_space_id |-> search_space_id,
                 user_id |-> user_id,
                 title |-> title,
                 description |-> description,
                 source_type |-> connector_type,
                 external_id |-> external_id,
                 external_url |-> PyStr(OrElse(Get(metadata.url), Get(metadata.link))),
                 external_metadata |-> doc.document_metadata,
                 status |-> status,
                 priority |-> priority.val,
                 due_date |-> due_date.val,
                 created_at |-> t,
                 updated_at |-> t,
                 completed_at |-> IF status = "DONE" THEN t ELSE NoTime,
                 linked_chat_ids |-> <<>>,
                 linked_document_ids |-> <<>>]
        IN
        [st EXCEPT
            !.tbl = Append(st.tbl, new_task),
            !.synced = Append(st.synced, i),
            !.done = IF status = "DONE" THEN st.done \cup {i} ELSE st.done]

RECURSIVE SyncDocs(_, _, _, _, _, _)
\* for doc in connector_docs; an exception ends the call
SyncDocs(st, connector_docs, search_space_id, user_id, connector_type, t) ==
    IF connector_docs = <<>> \/ st.exc THEN st
    ELSE SyncDocs(SyncDoc(st, Head(connector_docs), search_space_id, user_id,
                          connector_type, t),
                  Tail(connector_docs), search_space_id, user_id, connector_type, t)

\* the documents of one connector type in a search space, in scan order
ConnectorDocs(dtbl, search_space_id, connector_type) ==
    SelectSeq(dtbl, LAMBDA d :
        /\ d.search_space_id = search_space_id
        /\ d.document_type = ConnectorDocType(connector_type))

RECURSIVE SyncTypes(_, _, _, _, _, _)
\* for connector_type in connector_types
SyncTypes(st, dtbl, search_space_id, user_id, connector_types, t) ==
    IF connector_types = <<>> \/ st.exc THEN st
    ELSE SyncTypes(SyncDocs(st, ConnectorDocs(dtbl, search_space_id, Head(connector_types)),
                            search_space_id, user_id, Head(connector_types), t),
                   dtbl, search_space_id, user_id, Tail(connector_types), t)

\* TaskService.sync_tasks_from_connectors up to its commit
sync_tasks_from_connectors(tbl, dtbl, search_space_id, user_id, connector_types, t) ==
    SyncTypes([tbl |-> tbl, synced |-> <<>>, done |-> {}, exc |-> FALSE],
              dtbl, search_space_id, user_id, connector_types, t)


\* ------------------------------------------------------- filtered query
\* CASE WHEN priority = 'URGENT' THEN 1 ... ELSE 5 END
priority_order(priority) ==
    CASE priority = "URGENT" -> 1
      [] priority = "HIGH" -> 2
      [] priority = "MEDIUM" -> 3
      [] priority = "LOW" -> 4
      [] OTHER -> 5

\* bug: tasks without a due date sort first
PriorityBeforeNullsFirst(a, b) ==
    LET pa == priority_order(a.priority)
        pb == priority_order(b.priority)
        na == IF a.due_date = NoTime THEN 0 ELSE 1
        nb == IF b.due_date = NoTime THEN 0 ELSE 1
    IN  \/ pa < pb
        \/ pa = pb /\ na < nb
        \/ pa = pb /\ na = nb /\ na = 1 /\ a.due_date < b.due_date
        \/ pa = pb /\ na = nb /\ (na = 0 \/ a.due_date = b.due_date)
              /\ a.created_at < b.created_at

\* ORDER BY priority_order, due_date ASC NULLS LAST, created_at ASC:
\* row a sorts strictly before row b
PriorityBefore(a, b) ==
    LET pa == priority_order(a.priority)
        pb == priority_order(b.priority)
        na == IF a.due_date = NoTime THEN 1 ELSE 0
        nb == IF b.due_date = NoTime THEN 1 ELSE 0
    IN  \/ pa < pb
        \/ pa = pb /\ na < nb
        \/ pa = pb /\ na = nb /\ na = 0 /\ a.due_date < b.due_date
        \/ pa = pb /\ na = nb /\ (na = 1 \/ a.due_date = b.due_date)
              /\ a.created_at < b.created_at

\* ORDER BY created_at DESC
CreatedBefore(a, b) == a.created_at > b.created_at

\* the ORDER BY clause get_tasks_filtered applies
OrderBefore(sort_by_priority, a, b) ==
    IF sort_by_priority THEN PriorityBefore(a, b) ELSE CreatedBefore(a, b)

RECURSIVE InsertRow(_, _, _)
\* x goes before the first row it sorts strictly before
InsertRow(sort_by_priority, x, sorted) ==
    IF sorted = <<>> THEN <<x>>
    ELSE IF OrderBefore(sort_by_priority, x, Head(sorted)) THEN <<x>> \o sorted
    ELSE <<Head(sorted)>> \o InsertRow(sort_by_priority, x, Tail(sorted))

RECURSIVE SortRows(_, _)
\* the database's sort of the scanned rows
SortRows(sort_by_priority, rows) ==
    IF rows = <<>> THEN <<>>
    ELSE InsertRow(sort_by_priority, rows[Len(rows)],
                   SortRows(sort_by_priority, SubSeq(rows, 1, Len(rows) - 1)))

\* a request field the body leaves out
Omitted == "Omitted"

\* TaskFilterRequest: `status: Optional[str] = 'UNDONE'`, so a body without
\* a status asks for the UNDONE tasks and only an explicit null asks for all
TaskFilterRequest(body) ==
    [body EXCEPT !.status = IF body.status = Omitted THEN "UNDONE" ELSE body.status]

\* bug: the user_id condition is missing
FilterMatchesAnyUser(task, search_space_id, user_id, status) ==
    /\ task.search_space_id = search_space_id
    /\ (status \notin {None, ""} => task.status = status)

\* the WHERE clause of get_tasks_filtered; `if filter_req.status:` adds the
\* status condition only for a truthy status
FilterMatches(task, search_space_id, user_id, status) ==
    /\ task.search_space_id = search_space_id
    /\ task.user_id = user_id
    /\ (status \notin {None, ""} => task.status = status)

\* the sequences that list every element of S once: the orders in which a
\* scan without ORDER BY may deliver the rows
Scans(S) ==
    {q \in [1..Cardinality(S) -> S] : \A i, j \in 1..Cardinality(S) : q[i] = q[j] => i = j}

\* TaskService.get_tasks_filtered, for the scan order `scan` of the matching
\* rows; returns the ids in result order
get_tasks_filtered(tbl, scan, sort_by_priority) ==
    LET rows == [i \in 1..Len(scan) |-> tbl[scan[i]]]
        sorted == SortRows(sort_by_priority, rows)
    IN  [i \in 1..Len(sorted) |-> sorted[i].id]

\* ------------------------------------------------------------ auto-link
\* bug: complete_task keeps the completed_at of a task that has one
CompletedTaskKeep(task, t, recent_chat_ids, recent_doc_ids) ==
    [task EXCEPT !.status = "DONE",
                 !.completed_at = IF task.completed_at = NoTime THEN t
                                  ELSE task.completed_at,
                 !.updated_at = t,
                 !.linked_chat_ids = recent_chat_ids,
                 !.linked_document_ids = recent_doc_ids]

\* bug: the new links are appended to the lists the task already has
CompletedTaskAppend(task, t, recent_chat_ids, recent_doc_ids) ==
    [task EXCEPT !.status = "DONE",
                 !.completed_at = t,
                 !.updated_at = t,
                 !.linked_chat_ids = task.linked_chat_ids \o recent_chat_ids,
                 !.linked_document_ids = task.linked_document_ids \o recent_doc_ids]

\* the row complete_task writes: status, timestamps and link lists
CompletedTask(task, t, recent_chat_ids, recent_doc_ids) ==
    [task EXCEPT !.status = "DONE",
                 !.completed_at = t,
                 !.updated_at = t,
                 !.linked_chat_ids = recent_chat_ids,
                 !.linked_document_ids = recent_doc_ids]

\* SELECT id ... WHERE search_space_id = s AND created_at >= two_hours_ago
RecentIds(tbl, search_space_id, two_hours_ago) ==
    {tbl[i].id : i \in {j \in 1..Len(tbl) :
        /\ tbl[j].search_space_id = search_space_id
        /\ tbl[j].created_at >= two_hours_ago}}

Min(a, b) == IF a < b THEN a ELSE b

\* .limit(n) without ORDER BY: any n of the rows, in any order
Limited(S, n) ==
    LET m == Min(n, Cardinality(S)) IN
    {q \in [1..m -> S] : \A i, j \in 1..m : q[i] = q[j] => i = j}


\* ------------------------------------------------------- documents table
\* What a connector indexes for a source record.
Catalogue ==
    {[document_type |-> "LINEAR_CONNECTOR", title |-> "Fix login", content |-> "LONG",
      document_metadata |-> "LinearDone"],
     [document_type |-> "LINEAR_CONNECTOR", title |-> "Fix login (wip)", content |-> "",
      document_metadata |-> "LinearStarted"],
     [document_type |-> "JIRA_CONNECTOR", title |-> "Fix login", content |-> "short",
      document_metadata |-> "JiraResolved"],
     [document_type |-> "JIRA_CONNECTOR", title |-> "Triage", content |-> "short",
      document_metadata |-> "JiraNoPriority"],
     [document_type |-> "SLACK_CONNECTOR", title |-> "todo: login", content |-> "short",
      document_metadata |-> "SlackMessage"]}

Indexed(ref) == CHOOSE c \in Catalogue : c.document_metadata = ref

\* the clock starts late enough for a row to be older than the link window
StartTime == LinkWindowHours + 2
MaxTime == StartTime + MaxTicks
OldTime == StartTime - LinkWindowHours - 1
RecentTime == StartTime - 1

\* a row of the documents table
Doc(id, search_space_id, created_at, ref) ==
    [id |-> id, search_space_id |-> search_space_id,
     document_type |-> Indexed(ref).document_type,
     title |-> Indexed(ref).title, content |-> Indexed(ref).content,
     created_at |-> created_at, document_metadata |-> ref]

\* the documents tables the model starts from
DocTables ==
    {<<Doc(1, 1, OldTime, "LinearStarted"), Doc(2, 1, RecentTime, "LinearDone")>>,
     <<Doc(1, 1, OldTime, "JiraResolved"), Doc(2, 1, RecentTime, "JiraNoPriority")>>,
     <<Doc(1, 2, RecentTime, "LinearDone"), Doc(2, 1, RecentTime, "SlackMessage")>>}

\* the chats table
ChatTable ==
    <<[id |-> 1, search_space_id |-> 1, created_at |-> RecentTime],
      [id |-> 2, search_space_id |-> 1, created_at |-> OldTime]>>

\* the oldest creation time still inside the link window at StartTime
WindowStart == StartTime - LinkWindowHours

\* a chats table with more chats in the link window than complete_task links
ManyChats ==
    <<[id |-> 1, search_space_id |-> 1, created_at |-> WindowStart],
      [id |-> 2, search_space_id |-> 1, created_at |-> WindowStart],
      [id |-> 3, search_space_id |-> 1, created_at |-> RecentTime],
      [id |-> 4, search_space_id |-> 1, created_at |-> RecentTime],
      [id |-> 5, search_space_id |-> 1, created_at |-> RecentTime],
      [id |-> 6, search_space_id |-> 1, created_at |-> RecentTime],
      [id |-> 7, search_space_id |-> 1, created_at |-> OldTime],
      [id |-> 8, search_space_id |-> 2, created_at |-> RecentTime]>>

\* a documents table with more documents in the link window than are linked
ManyDocs ==
    <<Doc(1, 1, WindowStart, "SlackMessage"), Doc(2, 1, WindowStart, "SlackMessage"),
      Doc(3, 1, RecentTime, "SlackMessage"), Doc(4, 1, RecentTime, "SlackMessage"),
      Doc(5, 1, RecentTime, "SlackMessage"), Doc(6, 1, RecentTime, "SlackMessage"),
      Doc(7, 1, OldTime, "SlackMessage"), Doc(8, 2, RecentTime, "SlackMessage")>>

\* the chats and documents tables the auto-link model starts from
LinkTables ==
    {<<ManyChats, <<Doc(1, 1, OldTime, "LinearStarted"),
                    Doc(2, 1, RecentTime, "LinearDone")>> >>,
     <<ChatTable, ManyDocs>>}
      \cup {<<ChatTable, d>> : d \in DocTables}

\* the sync requests: TaskSyncRequest and the calling user
SyncRequests ==
    {[search_space_id |-> 1, user_id |-> "u1", connector_types |-> <<"LINEAR">>],
     [search_space_id |-> 1, user_id |-> "u2", connector_types |-> <<"JIRA", "LINEAR">>],
     [search_space_id |-> 1, user_id |-> "u1", connector_types |-> <<"JIRA", "LINEAR">>],
     [search_space_id |-> 2, user_id |-> "u1", connector_types |-> <<"LINEAR">>],
     [search_space_id |-> 1, user_id |-> "u1", connector_types |-> <<"SLACK", "GITHUB">>]}

\* the create requests: task_data (TaskCreate) and the calling user
CreateRequests ==
    {[user_id |-> "u1", search_space_id |-> 1, title |-> "Write report",
      description |-> None, priority |-> "HIGH", due_date |-> NoTime],
     [user_id |-> "u1", search_space_id |-> 1, title |-> "Call back",
      description |-> "today", priority |-> "HIGH", due_date |-> 2],
     [user_id |-> "u1", search_space_id |-> 1, title |-> "Tidy up",
      description |-> None, priority |-> None, due_date |-> 1],
     [user_id |-> "u2", search_space_id |-> 1, title |-> "Tidy up",
      description |-> None, priority |-> "low", due_date |-> NoTime],
     [user_id |-> "u1", search_space_id |-> 2, title |-> "Write report",
      description |-> None, priority |-> "HIGH", due_date |-> 1]}

\* the filter requests: the request body and the calling user
FilterRequests ==
    {[search_space_id |-> 1, user_id |-> "u1", status |-> Omitted, sort_by_priority |-> TRUE],
     [search_space_id |-> 1, user_id |-> "u1", status |-> None, sort_by_priority |-> TRUE],
     [search_space_id |-> 1, user_id |-> "u1", status |-> None, sort_by_priority |-> FALSE],
     [search_space_id |-> 1, user_id |-> "u1", status |-> "", sort_by_priority |-> TRUE],
     [search_space_id |-> 1, user_id |-> "u1", status |-> "UNDONE", sort_by_priority |-> TRUE],
     [search_space_id |-> 1, user_id |-> "u1", status |-> "DONE", sort_by_priority |-> FALSE],
     [search_space_id |-> 1, user_id |-> "u2", status |-> "UNDONE", sort_by_priority |-> TRUE],
     [search_space_id |-> 2, user_id |-> "u1", status |-> None, sort_by_priority |-> FALSE]}

\* no payload under test
NoProbe ==
    [metadata |-> EmptyMeta, connector_type |-> "", done |-> FALSE,
     is_task |-> FALSE, priority |-> Ok(None), due_date |-> Ok(NoTime),
     status_raw |-> Ok(<<>>)]

\* ------------------------------------------------- payloads under test
\* status and priority names a source system may carry
StatusNames ==
    {<<"D","O","N","E">>, <<"D","o","n","e">>, <<"d","o","n","e">>,
     <<"C","l","o","s","e","d">>, <<"c","o","m","p","l","e","t","e","d">>,
     <<"R","E","S","O","L","V","E","D">>, <<"R","e","s","o","l","v","e","d">>,
     <<"I","N","_","P","R","O","G","R","E","S","S">>,
     <<"I","n"," ","P","r","o","g","r","e","s","s">>,
     <<"U","n","d","o","n","e">>, <<"D","o","n","e"," ">>, <<"T","o","d","o">>, <<>>}

PriorityNames ==
    {<<"H","i","g","h","e","s","t">>, <<"b","l","o","c","k","e","r">>,
     <<"H","I","G","H">>, <<"M","e","d","i","u","m">>, <<"L","o","w","e","s","t">>,
     <<"l","o","w">>, <<"M","i","n","o","r">>, <<>>}

NameValues(names) == {AbsentN, NullN, IntN} \cup {StrN(cs) : cs \in names}

DueValues ==
    {JAbsent, JNull, JStr(""), JStr("2025-06-01"), JStr("2025-06-02T09:00:00Z"),
     JStr("2025-06-02T09:00:00+00:00"), JStr("tomorrow"), JInt("20250601"),
     JInt("0"), JList}

LinearBase == [EmptyMeta EXCEPT !.type = JStr("issue")]
JiraBase == [EmptyMeta EXCEPT !.issue_key = JStr("1"), !.fields = JDict]

\* the payloads: what classifies a record, and each extracted field with
\* its missing, null, ill-typed and well-formed shapes
ProbeMetadata ==
    {[EmptyMeta EXCEPT !.type = ty, !.issue = is, !.issue_key = ik, !.fields = fl] :
        ty \in {JAbsent, JNull, JStr("issue"), JStr("comment")},
        is \in {JAbsent, JNull, JDict},
        ik \in {JAbsent, JNull, JStr(""), JStr("1")},
        fl \in {JAbsent, JNull, JDict}}
    \cup {[LinearBase EXCEPT !.priority = pr] :
            pr \in {JNull, JInt("0"), JInt("1"), JInt("2"), JInt("3"), JInt("4"),
                    JStr("1")}}
    \cup {[LinearBase EXCEPT !.dueDate = due] : due \in DueValues}
    \cup {[LinearBase EXCEPT !.id = JStr("1"), !.state = st] :
            st \in {JNull, JStr("Done"), JList}}
    \cup {[LinearBase EXCEPT !.state = JDict, !.state_name = nm] :
            nm \in NameValues(StatusNames)}
    \cup {[JiraBase EXCEPT !.fields_priority = pr] : pr \in {JNull, JStr("High"), JList}}
    \cup {[JiraBase EXCEPT !.fields_priority = JDict, !.fields_priority_name = nm] :
            nm \in NameValues(PriorityNames)}
    \cup {[JiraBase EXCEPT !.fields_duedate = due] : due \in DueValues}
    \cup {[JiraBase EXCEPT !.fields_status = st] : st \in {JNull, JStr("Done"), JList}}
    \cup {[JiraBase EXCEPT !.fields_status = JDict, !.fields_status_name = nm] :
            nm \in NameValues(StatusNames)}
    \cup {MetaLinearDone, MetaLinearStarted, MetaJiraResolved}
    \cup {[base EXCEPT !.id = id, !.issue_key = ik] :
            base \in {LinearBase, JiraBase},
            id \in {JAbsent, JNull, JStr(""), JStr("1")},
            ik \in {JAbsent, JNull, JStr(""), JStr("2")}}

ProbeTags == {"LINEAR", "JIRA", "SLACK", "GITHUB"}

\* the documents table of a payload under test: the record itself and a
\* Slack message that carries the issue marker
ProbeDocs(connector_type) ==
    <<[id |-> 7, search_space_id |-> 1,
       document_type |-> ConnectorDocType(connector_type),
       title |-> "Probe", content |-> "short", created_at |-> RecentTime,
       document_metadata |-> "Probe"],
      Doc(8, 1, RecentTime, "SlackMessage")>>

\* the sync requests on a payload under test
ProbeRequests ==
    {[search_space_id |-> 1, user_id |-> "u1",
      connector_types |-> <<probe.connector_type>>],
     [search_space_id |-> 1, user_id |-> "u1", connector_types |-> <<"SLACK", "GITHUB">>]}

NoCall ==
    [op |-> "none", search_space_id |-> 0, user_id |-> "", connector_types |-> <<>>,
     status |-> None, sort_by_priority |-> FALSE, task_id |-> 0,
     exc |-> FALSE, value |-> <<>>, before |-> NoTime,
     error |-> "", status_code |-> 0]

\* the HTTP status of a route that wraps the service call in
\* `except Exception as e: raise HTTPException(status_code=500, ...)`
RouteStatus(error) == IF error = "" THEN 200 ELSE 500

\* =============================================================== insights
\* InsightsService: recent documents, activity insights, the plan asked of
\* the LLM and the fallback plan.

\* ------------------------------------------------------------ words
\* A word is a tuple of characters; a title is the tuple of the words that
\* title.split() gives.
LowerChar(c) ==
    IF \E i \in 1..26 : UpperCase[i] = c
    THEN LowerCase[CHOOSE i \in 1..26 : UpperCase[i] = c]
    ELSE c

\* str.lower()
Lower(cs) == [i \in 1..Len(cs) |-> LowerChar(cs[i])]

\* str.title() of a single word
TitleCase(cs) == [i \in 1..Len(cs) |-> IF i = 1 THEN UpperChar(cs[i]) ELSE LowerChar(cs[i])]

common_words ==
    {<<"t","h","e">>, <<"a">>, <<"a","n">>, <<"a","n","d">>, <<"o","r">>,
     <<"b","u","t">>, <<"i","n">>, <<"o","n">>, <<"a","t">>, <<"t","o">>,
     <<"f","o","r">>, <<"o","f">>, <<"w","i","t","h">>, <<"b","y">>,
     <<"f","r","o","m">>, <<"a","s">>, <<"i","s">>, <<"w","a","s">>,
     <<"a","r","e">>, <<"b","e">>, <<"b","e","e","n">>}

\* the search spaces and their owners (SearchSpace.user_id)
SearchSpaceOwner == [s \in {1, 2} |-> IF s = 1 THEN "u1" ELSE "u2"]

\* what gets indexed into the documents table: type and title
InsightCatalogue ==
    LET wThe == <<"T","h","e">>
        wTeam == <<"T","e","a","m">>
        wTEAM == <<"T","E","A","M">>
        wStandup == <<"s","t","a","n","d","u","p">>
        wDesign == <<"D","e","s","i","g","n">>
        wSpecs == <<"s","p","e","c","s">>
        wFrom == <<"f","r","o","m">>
        wLog == <<"l","o","g">>
    IN
    {[document_type |-> "SLACK_CONNECTOR", title |-> <<wThe, wTeam, wStandup>>],
     [document_type |-> "GITHUB_CONNECTOR", title |-> <<wLog, wFrom, wTEAM>>],
     [document_type |-> "FILE", title |-> <<wDesign, wSpecs>>],
     [document_type |-> "FILE", title |-> <<wLog>>],
     [document_type |-> "EXTENSION", title |-> <<wTeam, wSpecs>>]}

\* doc_type.value.endswith("_CONNECTOR") over the DocumentType values in use
IsConnectorType(document_type) ==
    document_type \in {"SLACK_CONNECTOR", "GITHUB_CONNECTOR", "LINEAR_CONNECTOR",
                       "JIRA_CONNECTOR"}

\* --------------------------------------------------- recent documents
\* Document.document_type.in_(type_filters)
InTypeFilters(document_type, include_connectors, include_files) ==
    \/ include_connectors /\ IsConnectorType(document_type)
    \/ include_files /\ document_type = "FILE"

\* InsightsService._fetch_recent_documents: the rows of the search space
\* (joined to its owner) of the wanted types, newest first, at most
\* num_documents of them; rows created at the same time come in any order
_fetch_recent_documents(tbl, user_id, search_space_id, num_documents, include_connectors, include_files) ==
    LET M == {j \in 1..Len(tbl) :
                /\ search_space_id \in DOMAIN SearchSpaceOwner
                /\ SearchSpaceOwner[search_space_id] = user_id
                /\ tbl[j].search_space_id = search_space_id
                /\ InTypeFilters(tbl[j].document_type, include_connectors,
                                 include_files)}
        Newest(q) ==
            /\ \A k \in 1..(Len(q) - 1) :
                 tbl[q[k]].created_at >= tbl[q[k + 1]].created_at
            /\ \A j \in M : \A k \in 1..Len(q) :
                 (\A l \in 1..Len(q) : q[l] # j)
                     => tbl[j].created_at <= tbl[q[k]].created_at
    IN  {[k \in 1..Len(q) |-> tbl[q[k]]] :
            q \in {r \in Limited(M, num_documents) : Newest(r)}}

\* ---------------------------------------------------- activity insights
RECURSIVE JoinTitles(_)
\* " ".join([doc.title for doc in documents]).split(): the words of all titles
JoinTitles(documents) ==
    IF documents = <<>> THEN <<>>
    ELSE Head(documents).title \o JoinTitles(Tail(documents))

\* Counter(seq).most_common(n), the elements only: the distinct elements,
\* most frequent first, equally frequent ones in order of first occurrence
MostCommon(seq, n) ==
    LET Count(x) == Cardinality({i \in 1..Len(seq) : seq[i] = x})
        FirstIndex(x) == CHOOSE i \in 1..Len(seq) :
            seq[i] = x /\ \A j \in 1..(i - 1) : seq[j] # x
        RECURSIVE Ranked(_)
        Ranked(D) ==
            IF D = {} THEN <<>>
            ELSE LET best == CHOOSE x \in D : \A y \in D \ {x} :
                                \/ Count(x) > Count(y)
                                \/ /\ Count(x) = Count(y)
                                   /\ FirstIndex(x) < FirstIndex(y)
                 IN  <<best>> \o Ranked(D \ {best})
        all == Ranked({seq[i] : i \in 1..Len(seq)})
    IN  SubSeq(all, 1, Min(n, Len(all)))

\* time_period of a time_delta given in hours
TimePeriod(hours) ==
    LET days == hours \div 24
        seconds == (hours % 24) * 3600
    IN  IF days > 0 THEN [text |-> "last {} day(s)", n |-> days]
        ELSE IF seconds > 3600
             THEN [text |-> "last {} hour(s)", n |-> seconds \div 3600]
             ELSE [text |-> "recent activity", n |-> 0]

\* the ActivityInsight returned for no documents
EmptyInsight ==
    [summary |-> [updates |-> 0, newest |-> <<>>, topics |-> <<>>],
     key_topics |-> <<>>,
     connector_activity |-> <<>>,
     document_count |-> 0,
     time_period_summary |-> [text |-> "No documents to analyze", n |-> 0]]

\* InsightsService._generate_activity_insights.  connector_activity is the
\* Counter of document types, as a function on the types present; summary
\* keeps the values its sentences are formatted from (number of updates,
\* title of the newest document, the first 8 topics).
_generate_activity_insights(documents) ==
    IF documents = <<>> THEN EmptyInsight
    ELSE
    LET types == {documents[i].document_type : i \in 1..Len(documents)}
        type_counter ==
            [t \in types |->
                Cardinality({i \in 1..Len(documents) : documents[i].document_type = t})]
        times == {documents[i].created_at : i \in 1..Len(documents)}
        oldest == CHOOSE t \in times : \A u \in times : t <= u
        newest == CHOOSE t \in times : \A u \in times : t >= u
        newest_doc == documents[CHOOSE i \in 1..Len(documents) :
                          /\ documents[i].created_at = newest
                          /\ \A j \in 1..(i - 1) : documents[j].created_at # newest]
        time_period == TimePeriod(newest - oldest)
        words == [i \in 1..Len(JoinTitles(documents)) |-> Lower(JoinTitles(documents)[i])]
        meaningful_words == SelectSeq(words, LAMBDA w : w \notin common_words /\ Len(w) > 3)
        top == MostCommon(meaningful_words, 10)
        key_topics == [i \in 1..Len(top) |-> TitleCase(top[i])]
    IN  [summary |-> [updates |-> Len(documents), newest |-> newest_doc.title,
                      topics |-> SubSeq(key_topics, 1, Min(8, Len(key_topics)))],
         key_topics |-> key_topics,
         connector_activity |-> type_counter,
         document_count |-> Len(documents),
         time_period_summary |-> time_period]

\* ------------------------------------------------------- fallback plan
\* ActionItem(title=..., description=..., priority=..., rationale=...); the
\* formatted strings are tuples of their pieces
ActionItem(title, description, priority, rationale) ==
    [title |-> title, description |-> description, priority |-> priority,
     rationale |-> rationale]

\* bug: the default item for an insight with nothing to suggest is missing
_generate_fallback_plan_bare(insights) ==
    [title |-> "Activity-Based Action Plan",
     description |-> <<"Based on your activity over the",
                       insights.time_period_summary,
                       ", here are recommended actions.">>,
     action_items |->
        IF insights.key_topics # <<>>
        THEN <<ActionItem(<<"Deep dive into", insights.key_topics[1]>>,
                 <<"Focus on", insights.key_topics[1],
                   "which appears frequently in your recent activity">>,
                 "MEDIUM", "This topic appears prominently in your recent documents")>>
        ELSE <<>>,
     estimated_timeframe |-> "Next few days"]

\* InsightsService._generate_fallback_plan
_generate_fallback_plan(insights) ==
    LET connector_activity == insights.connector_activity
        \* connector_activity.get(DocumentType.FILE.value, 0)
        files == IF "FILE" \in DOMAIN connector_activity
                 THEN connector_activity["FILE"] ELSE 0
        RECURSIVE Sum(_)
        Sum(types) ==
            IF types = {} THEN 0
            ELSE LET t == CHOOSE x \in types : TRUE
                 IN  connector_activity[t] + Sum(types \ {t})
        \* sum(count for doc_type, count in items if "_CONNECTOR" in doc_type)
        connector_count ==
            Sum({t \in DOMAIN connector_activity : IsConnectorType(t)})
        review ==
            IF files > 0
            THEN <<ActionItem("Review and organize uploaded files",
                     "Go through recently uploaded files and organize them by project or topic",
                     "MEDIUM", <<"You have uploaded", files, "files recently">>)>>
            ELSE <<>>
        follow_up ==
            IF connector_count > 0
            THEN <<ActionItem("Follow up on recent communications and updates",
                     "Review recent messages and updates from connected platforms",
                     "HIGH", <<"You have", connector_count, "items from connected sources">>)>>
            ELSE <<>>
        deep_dive ==
            IF insights.key_topics # <<>>
            THEN <<ActionItem(<<"Deep dive into", insights.key_topics[1]>>,
                     <<"Focus on", insights.key_topics[1],
                       "which appears frequently in your recent activity">>,
                     "MEDIUM", "This topic appears prominently in your recent documents")>>
            ELSE <<>>
        action_items == review \o follow_up \o deep_dive
    IN  [title |-> "Activity-Based Action Plan",
         description |-> <<"Based on your activity over the",
                           insights.time_period_summary,
                           ", here are recommended actions.">>,
         action_items |->
            IF action_items # <<>> THEN action_items
            ELSE <<ActionItem("Continue current work",
                      "Keep up with your current document workflow",
                      "MEDIUM", "Your activity shows consistent engagement")>>,
         estimated_timeframe |-> "Next few days"]

\* ------------------------------------------------------- the LLM reply
\* The reply text is a tuple of tokens: prose, a json code fence (three
\* backquotes and json), a bare code fence, a JSON document, or a token cut
\* short by a slice.
NoDoc ==
    [k |-> "none", title |-> JAbsent, description |-> JAbsent,
     estimated_timeframe |-> JAbsent, action_items |-> [k |-> "absent", v |-> <<>>]]

Prose == [tok |-> "prose", doc |-> NoDoc]
FenceJson == [tok |-> "fence_json", doc |-> NoDoc]
Fence == [tok |-> "fence", doc |-> NoDoc]
Truncated == [tok |-> "truncated", doc |-> NoDoc]
JsonDoc(doc) == [tok |-> "json", doc |-> doc]

\* decoded JSON documents: k is the type of the top-level value
GoodItem ==
    [k |-> "dict", title |-> JStr("Review the design specs"),
     description |-> JStr("Read the specs and list open questions"),
     priority |-> JStr("HIGH"), rationale |-> JStr("Two recent files are specs")]

GoodPlanData ==
    [k |-> "dict", title |-> JStr("Ship the design"),
     description |-> JStr("Finish the specs, then follow up with the team."),
     estimated_timeframe |-> JStr("This week"),
     action_items |->
        [k |-> "list",
         v |-> <<GoodItem, [GoodItem EXCEPT !.title = JStr("Tidy the log"),
                                            !.priority = JStr("LOW")]>>]]

PlanDocs ==
    LET BadPriorityItem == [GoodItem EXCEPT !.priority = JStr("CRITICAL")]
        NoRationaleItem == [GoodItem EXCEPT !.rationale = JAbsent]
        NullTitleItem == [GoodItem EXCEPT !.title = JNull]
        StringItem == [GoodItem EXCEPT !.k = "str"]
    IN
    {GoodPlanData,
     [GoodPlanData EXCEPT !.title = JAbsent, !.description = JAbsent,
                          !.estimated_timeframe = JAbsent],
     [GoodPlanData EXCEPT !.action_items = [k |-> "absent", v |-> <<>>]],
     [GoodPlanData EXCEPT !.action_items = [k |-> "list", v |-> <<>>]],
     [GoodPlanData EXCEPT !.action_items = [k |-> "null", v |-> <<>>]],
     [GoodPlanData EXCEPT !.action_items = [k |-> "list", v |-> <<GoodItem, BadPriorityItem>>]],
     [GoodPlanData EXCEPT !.action_items = [k |-> "list", v |-> <<NoRationaleItem>>]],
     [GoodPlanData EXCEPT !.action_items = [k |-> "list", v |-> <<NullTitleItem>>]],
     [GoodPlanData EXCEPT !.action_items = [k |-> "list", v |-> <<StringItem>>]],
     [GoodPlanData EXCEPT !.title = JNull],
     [GoodPlanData EXCEPT !.estimated_timeframe = JInt("2")],
     [NoDoc EXCEPT !.k = "list"],
     [NoDoc EXCEPT !.k = "dict"]}

\* what llm.agenerate does: raise, or return a text
LlmReplies ==
    {[raises |-> TRUE, text |-> <<>>]}
      \cup {[raises |-> FALSE, text |-> <<JsonDoc(d)>>] : d \in PlanDocs}
      \cup {[raises |-> FALSE, text |-> t] :
              t \in {<<>>,
                     <<Prose>>,
                     <<Prose, JsonDoc(GoodPlanData)>>,
                     <<FenceJson, JsonDoc(GoodPlanData), Fence>>,
                     <<Prose, FenceJson, JsonDoc(GoodPlanData), Fence, Prose>>,
                     <<Prose, Fence, JsonDoc(GoodPlanData), Fence>>,
                     <<Fence, Prose, Fence>>,
                     <<FenceJson, JsonDoc(GoodPlanData)>>,
                     <<Fence, JsonDoc(GoodPlanData)>>,
                     <<FenceJson>>}}

\* text.find(fence, start): the first token at or after start that holds the
\* fence (a json fence holds the bare fence too), 0 when there is none
Find(text, fence, start) ==
    LET hits == {i \in start..Len(text) :
                    \/ text[i].tok = fence
                    \/ fence = "fence" /\ text[i].tok = "fence_json"}
    IN  IF hits = {} THEN 0 ELSE CHOOSE i \in hits : \A j \in hits : i <= j

\* response_text[json_start:json_end].strip(): the tokens after the opening
\* fence up to the closing one; without a closing fence find() gives -1 and
\* the slice drops the last character of the text
BetweenFences(text, fence) ==
    LET open == Find(text, fence, 1)
        close == Find(text, "fence", open + 1)
    IN  IF close # 0 THEN SubSeq(text, open + 1, close - 1)
        ELSE IF open = Len(text) THEN <<>>
        ELSE SubSeq(text, open + 1, Len(text) - 1) \o <<Truncated>>

\* the text handed to json.loads
StripFences(text) ==
    IF Find(text, "fence_json", 1) # 0 THEN BetweenFences(text, "fence_json")
    ELSE IF Find(text, "fence", 1) # 0 THEN BetweenFences(text, "fence")
    ELSE text

\* json.loads: one JSON document and nothing else, or JSONDecodeError
json_loads(text) ==
    IF Len(text) = 1 /\ text[1].tok = "json" THEN Ok(text[1].doc)
    ELSE Raised("JSONDecodeError")

\* ------------------------------------------------------- plan by the LLM
\* the Plan built from the decoded document, or the exception raised on
\* the way: .get on a value that is not a dict, iterating null, a field
\* that fails validation
PlanFrom(plan_data) ==
    LET \* plan_data.get(key, default)
        GetOr(x, default) == IF x.k = "absent" THEN JStr(default) ELSE x
        \* ActionItem(**item) validates: a mapping with the four string
        \* fields, the priority matching ^(HIGH|MEDIUM|LOW)$
        ValidItem(item) ==
            /\ item.k = "dict"
            /\ \A f \in {"title", "description", "priority", "rationale"} :
                 item[f].k = "str"
            /\ item.priority.v \in {"HIGH", "MEDIUM", "LOW"}
        items == plan_data.action_items
        title == GetOr(plan_data.title, "Productivity Plan")
        description == GetOr(plan_data.description, "A plan based on your recent activity")
        estimated_timeframe == GetOr(plan_data.estimated_timeframe, "1-2 weeks")
    IN  IF plan_data.k # "dict" THEN Raised("AttributeError")
        ELSE IF items.k = "null" THEN Raised("TypeError")
        ELSE IF \E i \in 1..Len(items.v) : ~ValidItem(items.v[i])
             THEN Raised("ValidationError")
        ELSE IF \E x \in {title, description, estimated_timeframe} : x.k # "str"
             THEN Raised("ValidationError")
        ELSE Ok([title |-> title.v,
                 description |-> description.v,
                 action_items |->
                    [i \in 1..Len(items.v) |->
                        ActionItem(items.v[i].title.v, items.v[i].description.v,
                                   items.v[i].priority.v, items.v[i].rationale.v)],
                 estimated_timeframe |-> estimated_timeframe.v])

\* bug: a failure of the LLM call or of the parsing is not caught
_generate_plan_with_llm_uncaught(llm, reply, insights) ==
    IF llm = None THEN Raised("RuntimeError")
    ELSE IF reply.raises THEN Raised("Exception")
    ELSE LET plan_data == json_loads(StripFences(reply.text)) IN
         IF plan_data.exc THEN plan_data
         ELSE PlanFrom(plan_data.val)

\* InsightsService._generate_plan_with_llm: llm is what
\* get_user_strategic_llm returned, reply what llm.agenerate does
_generate_plan_with_llm(llm, reply, insights) ==
    IF llm = None THEN Raised("RuntimeError")
    ELSE IF reply.raises THEN Ok(_generate_fallback_plan(insights))
    ELSE LET plan_data == json_loads(StripFences(reply.text)) IN
         IF plan_data.exc THEN Ok(_generate_fallback_plan(insights))
         ELSE IF PlanFrom(plan_data.val).exc THEN Ok(_generate_fallback_plan(insights))
         ELSE PlanFrom(plan_data.val)

\* ----------------------------------------------- generate_insights_and_plan
MaxDocs == 2

NumDocuments == {1, 50}

NoResponse ==
    [insights |-> EmptyInsight,
     plan |-> [title |-> "", description |-> "", action_items |-> <<>>,
               estimated_timeframe |-> ""],
     metadata |-> [search_space_id |-> 0, documents_analyzed |-> 0,
                   analysis_timestamp |-> NoTime,
                   included_types |-> [connectors |-> FALSE, files |-> FALSE]]]

NoReply == [raises |-> FALSE, text |-> <<>>]

\* no call of generate_insights_and_plan in progress.  fetched, llm_lookups
\* and llm_calls record how far a call went: whether the documents were
\* queried, the LLM looked up, llm.agenerate called.
NoInsight ==
    [op |-> "none", user_id |-> "", search_space_id |-> 0, num_documents |-> 0,
     include_connectors |-> FALSE, include_files |-> FALSE,
     documents |-> <<>>, llm |-> None, reply |-> NoReply,
     exc |-> FALSE, error |-> "", response |-> NoResponse,
     fetched |-> FALSE, llm_lookups |-> 0, llm_calls |-> 0]

\* bug: an empty document list is analysed like any other
generate_insights_and_plan_unchecked(call, documents, llm, reply, t) ==
    IF ~call.include_connectors /\ ~call.include_files
    THEN [call EXCEPT !.exc = TRUE, !.error = "ValueError"]
    ELSE
    LET insights == _generate_activity_insights(documents)
        plan == _generate_plan_with_llm(llm, reply, insights)
        reached == [call EXCEPT !.fetched = TRUE, !.documents = documents,
                                !.llm = llm, !.llm_lookups = 1,
                                !.reply = IF llm = None THEN NoReply ELSE reply,
                                !.llm_calls = IF llm = None THEN 0 ELSE 1]
    IN  IF plan.exc
        THEN [reached EXCEPT !.exc = TRUE, !.error = plan.val]
        ELSE [reached EXCEPT !.response =
                [insights |-> insights,
                 plan |-> plan.val,
                 metadata |->
                    [search_space_id |-> call.search_space_id,
                     documents_analyzed |-> Len(documents),
                     analysis_timestamp |-> t,
                     included_types |-> [connectors |-> call.include_connectors,
                                         files |-> call.include_files]]]]

\* InsightsService.generate_insights_and_plan, on the documents that
\* _fetch_recent_documents returned
generate_insights_and_plan(call, documents, llm, reply, t) ==
    IF ~call.include_connectors /\ ~call.include_files
    THEN [call EXCEPT !.exc = TRUE, !.error = "ValueError"]
    ELSE IF documents = <<>>
    THEN [call EXCEPT !.exc = TRUE, !.error = "ValueError", !.fetched = TRUE]
    ELSE
    LET insights == _generate_activity_insights(documents)
        plan == _generate_plan_with_llm(llm, reply, insights)
        reached == [call EXCEPT !.fetched = TRUE, !.documents = documents,
                                !.llm = llm, !.llm_lookups = 1,
                                !.reply = IF llm = None THEN NoReply ELSE reply,
                                !.llm_calls = IF llm = None THEN 0 ELSE 1]
    IN  IF plan.exc
        THEN [reached EXCEPT !.exc = TRUE, !.error = plan.val]
        ELSE [reached EXCEPT !.response =
                [insights |-> insights,
                 plan |-> plan.val,
                 metadata |->
                    [search_space_id |-> call.search_space_id,
                     documents_analyzed |-> Len(documents),
                     analysis_timestamp |-> t,
                     included_types |-> [connectors |-> call.include_connectors,
                                         files |-> call.include_files]]]]

\* ----------------------------------------------------------------- Init
Init ==
    /\ tasks = <<>>
    /\ docs \in DocTables
    /\ chats = ChatTable
    /\ now = StartTime
    /\ ret = NoCall
    /\ everDone = {}
    /\ probe = NoProbe
    /\ insight = NoInsight
    /\ ServicesIdle

\* ---------------------------------------------------------- environment
\* time passes
Tick ==
    /\ ret = NoCall
    /\ now < MaxTime
    /\ now' = now + 1
    /\ UNCHANGED <<tasks, docs, chats, ret, everDone, probe, insight, services>>

\* a connector re-indexes a document whose source record changed
ReindexDocument ==
    /\ ret = NoCall
    /\ \E i \in 1..Len(docs), c \in Catalogue :
         /\ c.document_type = docs[i].document_type
         /\ c.document_metadata # docs[i].document_metadata
         /\ docs' = [docs EXCEPT ![i].title = c.title, ![i].content = c.content,
                                 ![i].document_metadata = c.document_metadata]
    /\ UNCHANGED <<tasks, chats, now, ret, everDone, probe, insight, services>>

\* the response of the last call has been delivered
Return ==
    /\ ret # NoCall
    /\ ret' = NoCall
    /\ UNCHANGED <<tasks, docs, chats, now, everDone, probe, insight, services>>

\* -------------------------------------------------------------- handlers
\* bug: every flushed write is persisted (a commit per record)
CommittedPartial(r, tbl) == r.tbl

\* bug: the update path also resets the link lists of the task it writes
CommittedResetLinks(r, tbl) ==
    IF r.exc THEN tbl
    ELSE [i \in 1..Len(r.tbl) |->
            IF \E k \in 1..Len(r.synced) : r.synced[k] = i
            THEN [r.tbl[i] EXCEPT !.linked_chat_ids = <<>>,
                                  !.linked_document_ids = <<>>]
            ELSE r.tbl[i]]

\* the tasks table after a sync call: flush() writes inside the transaction
\* and the one commit() is the last statement, so a call that raised before
\* or in it leaves the table as it was
Committed(r, tbl) == IF r.exc THEN tbl ELSE r.tbl

\* POST /tasks/sync: an exception leaves the transaction uncommitted
SyncBy(requests) ==
    /\ ret = NoCall
    /\ \E sync_req \in requests :
      LET r == sync_tasks_from_connectors(tasks, docs, sync_req.search_space_id,
                                       sync_req.user_id, sync_req.connector_types, now)
          call == [NoCall EXCEPT !.op = "sync",
                                 !.search_space_id = sync_req.search_space_id,
                                 !.user_id = sync_req.user_id,
                                 !.connector_types = sync_req.connector_types]
      IN
      /\ Len(r.tbl) <= MaxTasks
      /\ tasks' = Committed(r, tasks)
      /\ IF r.exc
         THEN /\ ret' = [call EXCEPT !.exc = TRUE, !.error = "AttributeError",
                                     !.status_code = RouteStatus("AttributeError")]
              /\ UNCHANGED everDone
         ELSE /\ everDone' = everDone \cup r.done
              /\ ret' = [call EXCEPT !.value = r.synced,
                                     !.status_code = RouteStatus("")]
    /\ UNCHANGED <<docs, chats, now, probe, insight, services>>

sync_tasks == SyncBy(SyncRequests)

\* POST /tasks/sync when session.commit() raises: the records were processed
\* and flushed, the transaction is lost
sync_tasks_commit_fails ==
    /\ ret = NoCall
    /\ \E sync_req \in SyncRequests :
      LET r == sync_tasks_from_connectors(tasks, docs, sync_req.search_space_id,
                                       sync_req.user_id, sync_req.connector_types, now)
          call == [NoCall EXCEPT !.op = "sync",
                                 !.search_space_id = sync_req.search_space_id,
                                 !.user_id = sync_req.user_id,
                                 !.connector_types = sync_req.connector_types]
      IN
      /\ ~r.exc
      /\ Len(r.tbl) <= MaxTasks
      /\ tasks' = Committed([r EXCEPT !.exc = TRUE], tasks)
      /\ ret' = [call EXCEPT !.exc = TRUE, !.error = "DBAPIError",
                             !.status_code = RouteStatus("DBAPIError")]
    /\ UNCHANGED <<docs, chats, now, everDone, probe, insight, services>>

\* POST /tasks/sync on the payload under test
ProbeSync == SyncBy(ProbeRequests)

\* the extractors applied to the payload under test
Extract ==
    /\ ret = NoCall
    /\ ~probe.done
    /\ probe' = [probe EXCEPT
          !.done = TRUE,
          !.is_task = _is_task_document(probe.metadata, probe.connector_type),
          !.priority = _extract_priority(probe.metadata, probe.connector_type),
          !.due_date = _extract_due_date(probe.metadata, probe.connector_type),
          !.status_raw = _extract_status(probe.metadata, probe.connector_type)]
    /\ UNCHANGED <<tasks, docs, chats, now, ret, everDone, insight, services>>

\* POST /tasks/filter
get_tasks ==
    /\ ret = NoCall
    /\ \E body \in FilterRequests :
      LET filter_req == TaskFilterRequest(body)
          search_space_id == filter_req.search_space_id
          user_id == body.user_id
          status == filter_req.status
          sort_by_priority == filter_req.sort_by_priority
          matching == {i \in 1..Len(tasks) :
                          FilterMatches(tasks[i], search_space_id, user_id, status)}
      IN
      \E scan \in Scans(matching) :
        ret' = [NoCall EXCEPT !.op = "filter", !.search_space_id = search_space_id,
                              !.user_id = user_id, !.status = body.status,
                              !.sort_by_priority = sort_by_priority,
                              !.value = get_tasks_filtered(tasks, scan, sort_by_priority),
                              !.status_code = RouteStatus("")]
    /\ UNCHANGED <<tasks, docs, chats, now, everDone, probe, insight, services>>

\* bug: the user_id condition is missing from the lookup
FindTaskAnyUser(tbl, task_id, user_id) ==
    LET hits == {i \in 1..Len(tbl) : tbl[i].id = task_id}
    IN  IF hits = {} THEN Raised("NoResultFound")
        ELSE Ok(CHOOSE h \in hits : TRUE)

\* select(Task).where(and_(Task.id == task_id, Task.user_id == user_id)) and
\* scalar_one(): the row (its index), or NoResultFound raised
FindTask(tbl, task_id, user_id) ==
    LET hits == {i \in 1..Len(tbl) :
                    tbl[i].id = task_id /\ tbl[i].user_id = user_id}
    IN  IF hits = {} THEN Raised("NoResultFound")
        ELSE Ok(CHOOSE h \in hits : TRUE)

\* POST /tasks/complete: scalar_one() raises when no row matches
CompleteBy(task_ids, users) ==
    /\ ret = NoCall
    /\ \E task_id \in task_ids, user_id \in users :
      LET task == FindTask(tasks, task_id, user_id)
          call == [NoCall EXCEPT !.op = "complete", !.task_id = task_id,
                                 !.user_id = user_id]
      IN
      IF task.exc
      THEN /\ ret' = [call EXCEPT !.exc = TRUE, !.error = task.val,
                                  !.status_code = RouteStatus(task.val)]
           /\ UNCHANGED <<tasks, everDone>>
      ELSE
        LET i == task.val
            two_hours_ago == now - LinkWindowHours
        IN
        \E recent_chat_ids \in Limited(RecentIds(chats, tasks[i].search_space_id,
                                                 two_hours_ago), LinkLimit),
           recent_doc_ids \in Limited(RecentIds(docs, tasks[i].search_space_id,
                                                two_hours_ago), LinkLimit) :
          /\ tasks' = [tasks EXCEPT ![i] = CompletedTask(tasks[i], now, recent_chat_ids,
                                                         recent_doc_ids)]
          /\ everDone' = everDone \cup {i}
          /\ ret' = [call EXCEPT !.value = <<i>>, !.before = tasks[i].completed_at,
                                 !.status_code = RouteStatus("")]
    /\ UNCHANGED <<docs, chats, now, probe, insight, services>>

complete_task == CompleteBy(1..(MaxTasks + 1), Users)

\* bug: the new task carries an external_id (its title)
ManualTaskTagged(task_data, user_id, i, t) ==
    [id |-> i,
     search_space_id |-> task_data.search_space_id,
     user_id |-> user_id,
     title |-> task_data.title,
     description |-> task_data.description,
     source_type |-> "MANUAL",
     external_id |-> task_data.title,
     external_url |-> None,
     external_metadata |-> None,
     status |-> "UNDONE",
     priority |-> task_data.priority,
     due_date |-> task_data.due_date,
     created_at |-> t,
     updated_at |-> t,
     completed_at |-> NoTime,
     linked_chat_ids |-> <<>>,
     linked_document_ids |-> <<>>]

\* Task(search_space_id=..., user_id=..., title=..., description=...,
\*      source_type="MANUAL", status="UNDONE", priority=..., due_date=...):
\* the columns not passed take their defaults (NULL, empty lists, now)
ManualTask(task_data, user_id, i, t) ==
    [id |-> i,
     search_space_id |-> task_data.search_space_id,
     user_id |-> user_id,
     title |-> task_data.title,
     description |-> task_data.description,
     source_type |-> "MANUAL",
     external_id |-> None,
     external_url |-> None,
     external_metadata |-> None,
     status |-> "UNDONE",
     priority |-> task_data.priority,
     due_date |-> task_data.due_date,
     created_at |-> t,
     updated_at |-> t,
     completed_at |-> NoTime,
     linked_chat_ids |-> <<>>,
     linked_document_ids |-> <<>>]

\* POST /tasks/create
CreateBy(requests, max_tasks) ==
    /\ ret = NoCall
    /\ Len(tasks) < max_tasks
    /\ \E req \in requests :
         LET task_data == req
             user_id == req.user_id
             i == Len(tasks) + 1
             new_task == ManualTask(task_data, user_id, i, now)
         IN
         /\ tasks' = Append(tasks, new_task)
         /\ ret' = [NoCall EXCEPT !.op = "create",
                                  !.search_space_id = task_data.search_space_id,
                                  !.user_id = user_id, !.value = <<i>>,
                                  !.status_code = RouteStatus("")]
    /\ UNCHANGED <<docs, chats, now, everDone, probe, insight, services>>

create_manual_task == CreateBy(CreateRequests, MaxTasks)

\* GET /tasks/{task_id}: scalar_one_or_none(), and HTTPException(404) when the
\* row is missing or owned by another user
get_task ==
    /\ ret = NoCall
    /\ \E task_id \in 1..(MaxTasks + 1), user_id \in Users :
         LET hits == {i \in 1..Len(tasks) :
                         tasks[i].id = task_id /\ tasks[i].user_id = user_id}
             call == [NoCall EXCEPT !.op = "get", !.task_id = task_id,
                                    !.user_id = user_id]
         IN
         IF hits = {}
         THEN ret' = [call EXCEPT !.exc = TRUE, !.error = "HTTPException",
                                  !.status_code = 404]
         ELSE ret' = [call EXCEPT !.value = <<CHOOSE h \in hits : TRUE>>,
                                  !.status_code = 200]
    /\ UNCHANGED <<tasks, docs, chats, now, everDone, probe, insight, services>>

Next ==
    \/ Tick
    \/ ReindexDocument
    \/ Return
    \/ sync_tasks
    \/ sync_tasks_commit_fails
    \/ get_tasks
    \/ complete_task
    \/ create_manual_task
    \/ get_task

Spec == Init /\ [][Next]_vars

\* the extractors and the sync of one payload, for every payload and tag
\* ------------------------------------------------------------------------
\* The auto-link model: tasks are created by hand and completed, on tables
\* that hold more rows in the link window than complete_task links.
LinkCreateRequests ==
    {req \in CreateRequests : req.search_space_id = 1 /\ req.due_date = 1}

InitLink ==
    /\ tasks = <<>>
    /\ \E tables \in LinkTables : chats = tables[1] /\ docs = tables[2]
    /\ now = StartTime
    /\ ret = NoCall
    /\ everDone = {}
    /\ probe = NoProbe
    /\ insight = NoInsight
    /\ ServicesIdle

LinkCreate == CreateBy(LinkCreateRequests, MaxLinkTasks)

LinkComplete == CompleteBy(1..(MaxLinkTasks + 1), {"u1"})

NextLink ==
    \/ Tick
    \/ Return
    \/ LinkCreate
    \/ LinkComplete

SpecLink == InitLink /\ [][NextLink]_vars

InitExtract ==
    /\ tasks = <<>>
    /\ probe \in {[NoProbe EXCEPT !.metadata = m, !.connector_type = ct] :
                     m \in ProbeMetadata, ct \in ProbeTags}
    /\ docs = ProbeDocs(probe.connector_type)
    /\ chats = ChatTable
    /\ now = StartTime
    /\ ret = NoCall
    /\ everDone = {}
    /\ insight = NoInsight
    /\ ServicesIdle

NextExtract ==
    \/ Extract
    \/ ProbeSync
    \/ Return
    \/ Tick

SpecExtract == InitExtract /\ [][NextExtract]_vars

\* ------------------------------------------------------------------------
\* The insights model: documents get indexed into the search spaces and
\* generate_insights_and_plan is called on them.
InitInsights ==
    /\ tasks = <<>>
    /\ docs = <<>>
    /\ chats = <<>>
    /\ now = StartTime
    /\ ret = NoCall
    /\ everDone = {}
    /\ probe = NoProbe
    /\ insight = NoInsight
    /\ ServicesIdle

\* a connector or an upload adds a document
IndexDocument ==
    /\ insight.op = "none"
    /\ Len(docs) < MaxDocs
    /\ \E c \in InsightCatalogue, search_space_id \in DOMAIN SearchSpaceOwner :
         docs' = Append(docs,
            [id |-> Len(docs) + 1, search_space_id |-> search_space_id,
             document_type |-> c.document_type, title |-> c.title,
             content |-> "short", created_at |-> now, document_metadata |-> None])
    /\ UNCHANGED <<tasks, chats, now, ret, everDone, probe, insight, services>>

\* InsightsService(session, user_id).generate_insights_and_plan(...)
generate_insights ==
    /\ insight.op = "none"
    /\ \E user_id \in Users, search_space_id \in DOMAIN SearchSpaceOwner,
          num_documents \in NumDocuments,
          include_connectors \in BOOLEAN, include_files \in BOOLEAN,
          llm \in {None, "llm"}, reply \in LlmReplies :
         LET call == [NoInsight EXCEPT !.op = "insights", !.user_id = user_id,
                                       !.search_space_id = search_space_id,
                                       !.num_documents = num_documents,
                                       !.include_connectors = include_connectors,
                                       !.include_files = include_files]
         IN  \E documents \in _fetch_recent_documents(docs, user_id, search_space_id,
                                    num_documents, include_connectors, include_files) :
                insight' = generate_insights_and_plan(call, documents, llm, reply, now)
    /\ UNCHANGED <<tasks, docs, chats, now, ret, everDone, probe, services>>

\* the outcome of the call has been delivered
InsightReturn ==
    /\ insight.op # "none"
    /\ insight' = NoInsight
    /\ UNCHANGED <<tasks, docs, chats, now, ret, everDone, probe, services>>

NextInsights ==
    \/ Tick
    \/ IndexDocument
    \/ generate_insights
    \/ InsightReturn

SpecInsights == InitInsights /\ [][NextInsights]_vars

\* ========================================================= pure functions
\* ActivityInsight objects: connector_activity is a Dict[str, int] on any of
\* the document types, a count may be 0; key_topics has 0 to 2 topics
ActivityInsights ==
    {[EmptyInsight EXCEPT !.key_topics = key_topics,
                          !.connector_activity = connector_activity,
                          !.document_count = document_count,
                          !.time_period_summary = TimePeriod(hours)] :
        key_topics \in {<<>>, <<<<"D","e","s","i","g","n">>>>,
                        <<<<"S","p","e","c","s">>, <<"D","e","s","i","g","n">>>>},
        connector_activity \in UNION {[types -> 0..2] :
            types \in SUBSET {"FILE", "SLACK_CONNECTOR", "EXTENSION"}},
        document_count \in {0, 2},
        hours \in {0, 30}}

\* interval strings: every string of up to MaxIntervalLen of these
\* characters, and some longer ones
MaxIntervalLen == 3
IntervalChars == {"0", "1", "5", "m", "h", "x", " ", "M"}
Intervals ==
    UNION {[1..n -> IntervalChars] : n \in 0..MaxIntervalLen}
    \cup {<<"1","m","i","n">>, <<"5","m","i","n">>, <<"1","h","o","u","r">>,
          <<"2","h","o","u","r">>, <<"-","5","m">>, <<"1",".","5","h">>,
          <<"1","h","r">>, <<"1","5","m","i","n">>}

\* a crontab field is a tuple of the pieces it is formatted from
EveryMinute == [minute |-> <<"*">>, hour |-> <<"*">>]

\* celery_app.parse_schedule_interval
parse_schedule_interval(interval) ==
    LET RECURSIVE LStrip(_), RStrip(_, _), Value(_)
        LStrip(cs) == IF cs # <<>> /\ Head(cs) = " " THEN LStrip(Tail(cs)) ELSE cs
        \* str.rstrip(chars) drops every trailing character that is in chars
        RStrip(cs, chars) ==
            IF cs # <<>> /\ cs[Len(cs)] \in chars
            THEN RStrip(SubSeq(cs, 1, Len(cs) - 1), chars) ELSE cs
        Strip(cs) == RStrip(LStrip(cs), {" "})
        EndsWith(cs, suffix) ==
            /\ Len(cs) >= Len(suffix)
            /\ SubSeq(cs, Len(cs) - Len(suffix) + 1, Len(cs)) = suffix
        Digits == <<"0", "1", "2", "3", "4", "5", "6", "7", "8", "9">>
        IsDigit(c) == \E i \in 1..10 : Digits[i] = c
        Value(ds) ==
            IF ds = <<>> THEN 0
            ELSE 10 * Value(SubSeq(ds, 1, Len(ds) - 1))
                 + (CHOOSE i \in 1..10 : Digits[i] = ds[Len(ds)]) - 1
        \* int(text): surrounding whitespace, a sign, then digits
        ParseInt(text) ==
            LET t == Strip(text)
                signed == t # <<>> /\ Head(t) \in {"+", "-"}
                ds == IF signed THEN Tail(t) ELSE t
            IN  IF ds = <<>> \/ \E i \in 1..Len(ds) : ~IsDigit(ds[i])
                THEN Raised("ValueError")
                ELSE Ok(IF signed /\ Head(t) = "-" THEN 0 - Value(ds) ELSE Value(ds))
        lowered == Lower(Strip(interval))
    IN  IF EndsWith(lowered, <<"m">>) \/ EndsWith(lowered, <<"m","i","n">>) THEN
            LET num == ParseInt(RStrip(lowered, {"m", "i", "n"})) IN
            IF num.exc THEN num
            ELSE IF num.val = 1 THEN Ok(EveryMinute)
            ELSE Ok([minute |-> <<"*/", num.val>>, hour |-> <<"*">>])
        ELSE IF EndsWith(lowered, <<"h">>) \/ EndsWith(lowered, <<"h","o","u","r">>) THEN
            LET num == ParseInt(RStrip(lowered, {"h", "o", "u", "r"})) IN
            IF num.exc THEN num
            ELSE IF num.val = 1 THEN Ok([minute |-> <<"0">>, hour |-> <<"*">>])
            ELSE Ok([minute |-> <<"0">>, hour |-> <<"*/", num.val>>])
        ELSE Ok(EveryMinute)

\* InsightsService._generate_fallback_plan on an ActivityInsight
fallback_plan ==
    /\ insight = NoInsight
    /\ schedule = NoSchedule
    /\ \E insights \in ActivityInsights :
         insight' = [NoInsight EXCEPT
            !.op = "fallback",
            !.response = [NoResponse EXCEPT
                !.insights = insights,
                !.plan = _generate_fallback_plan(insights)]]
    /\ UNCHANGED <<tasks, docs, chats, now, ret, everDone, probe,
                   materials, attempt_log, links, reminders, sessions, schedule>>

\* schedule_params = parse_schedule_interval(SCHEDULE_CHECKER_INTERVAL)
parse_schedule ==
    /\ insight = NoInsight
    /\ schedule = NoSchedule
    /\ \E interval \in Intervals :
         LET r == parse_schedule_interval(interval) IN
         schedule' = [NoSchedule EXCEPT
            !.op = "parse",
            !.interval = interval,
            !.exc = r.exc,
            !.error = IF r.exc THEN r.val ELSE "",
            !.value = IF r.exc THEN NoSchedule.value ELSE r.val]
    /\ UNCHANGED <<tasks, docs, chats, now, ret, everDone, probe, insight,
                   materials, attempt_log, links, reminders, sessions>>

\* the result has been used
UnitReturn ==
    /\ insight # NoInsight \/ schedule # NoSchedule
    /\ insight' = NoInsight
    /\ schedule' = NoSchedule
    /\ UNCHANGED <<tasks, docs, chats, now, ret, everDone, probe,
                   materials, attempt_log, links, reminders, sessions>>

InitUnits ==
    /\ tasks = <<>>
    /\ docs = <<>>
    /\ chats = <<>>
    /\ now = StartTime
    /\ ret = NoCall
    /\ everDone = {}
    /\ probe = NoProbe
    /\ insight = NoInsight
    /\ ServicesIdle

NextUnits ==
    \/ fallback_plan
    \/ parse_schedule
    \/ UnitReturn

SpecUnits == InitUnits /\ [][NextUnits]_vars

\* ======================================================== other services
\* study materials, search space links, activity reminders
MaxAttempts == 3

\* the study_materials table: two materials nobody has attempted yet
StudyMaterials ==
    <<[id |-> 1, search_space_id |-> 1, times_attempted |-> 0,
       times_correct |-> 0, last_attempted_at |-> NoTime],
      [id |-> 2, search_space_id |-> 1, times_attempted |-> 0,
       times_correct |-> 0, last_attempted_at |-> NoTime]>>

\* StudyMaterialAttempt bodies; no material has id 3
Attempts == [material_id : 1..3, is_correct : BOOLEAN]

\* bug: times_correct is incremented whatever is_correct says
record_attempt_any(tbl, attempt, t) ==
    LET hits == {i \in 1..Len(tbl) : tbl[i].id = attempt.material_id} IN
    IF hits = {} THEN Raised(tbl)
    ELSE LET i == CHOOSE i \in hits : TRUE IN
         Ok([tbl EXCEPT ![i].times_attempted = @ + 1,
                        ![i].times_correct = @ + 1,
                        ![i].last_attempted_at = t])

\* StudyService.record_attempt: scalar_one() raises when no row has the id
record_attempt(tbl, attempt, t) ==
    LET hits == {i \in 1..Len(tbl) : tbl[i].id = attempt.material_id} IN
    IF hits = {} THEN Raised(tbl)
    ELSE LET i == CHOOSE i \in hits : TRUE IN
         Ok([tbl EXCEPT ![i].times_attempted = @ + 1,
                        ![i].times_correct = IF attempt.is_correct THEN @ + 1 ELSE @,
                        ![i].last_attempted_at = t])

\* POST /study/attempt
study_attempt ==
    /\ ret = NoCall
    /\ reminders = NoRun
    /\ Len(attempt_log) < MaxAttempts
    /\ \E attempt \in Attempts :
         LET r == record_attempt(materials, attempt, now)
             error == IF r.exc THEN "NoResultFound" ELSE ""
         IN  /\ materials' = r.val
             /\ attempt_log' = IF r.exc THEN attempt_log ELSE Append(attempt_log, attempt)
             /\ ret' = [args |-> attempt] @@
                       [NoCall EXCEPT !.op = "attempt", !.exc = r.exc, !.error = error,
                                      !.status_code = RouteStatus(error)]
    /\ UNCHANGED <<tasks, docs, chats, now, everDone, probe, insight,
                   links, reminders, sessions, schedule>>

\* the users table and the searchspaces table
UserRows ==
    <<[id |-> "u1", email |-> "u1@example.org"],
      [id |-> "u2", email |-> "u2@example.org"],
      [id |-> "u3", email |-> None],
      [id |-> "u4", email |-> "u4@example.org"]>>

SearchSpaces ==
    <<[id |-> 1, user_id |-> "u1"], [id |-> 2, user_id |-> "u1"],
      [id |-> 3, user_id |-> "u2"], [id |-> 4, user_id |-> "u3"]>>

\* link and unlink requests: the two space ids and the calling user; no
\* search space has id 5
LinkRequests ==
    [source_space_id : {1, 2, 3, 5}, target_space_id : {1, 2, 3}, user_id : {"u1", "u2"}]

\* bug: neither the self-link test nor the existing-link test is made, and
\* the table has neither constraint
link_search_spaces_unchecked(tbl, link_data) ==
    LET Owned(id) == \E i \in 1..Len(SearchSpaces) :
                        /\ SearchSpaces[i].id = id
                        /\ SearchSpaces[i].user_id = link_data.user_id
    IN  IF ~Owned(link_data.source_space_id) \/ ~Owned(link_data.target_space_id)
        THEN [links |-> tbl, status_code |-> 404]
        ELSE [links |-> Append(tbl, [source_space_id |-> link_data.source_space_id,
                                     target_space_id |-> link_data.target_space_id]),
              status_code |-> 200]

\* POST /searchspaces/links.  check_ownership answers 404 unless the search
\* space exists and belongs to the caller; the insert is refused by the
\* table's unique and check constraints, which the route turns into a 500.
link_search_spaces(tbl, link_data) ==
    LET Owned(id) == \E i \in 1..Len(SearchSpaces) :
                        /\ SearchSpaces[i].id = id
                        /\ SearchSpaces[i].user_id = link_data.user_id
        row == [source_space_id |-> link_data.source_space_id,
                target_space_id |-> link_data.target_space_id]
        existing_link == \E i \in 1..Len(tbl) : tbl[i] = row
    IN  IF ~Owned(link_data.source_space_id) \/ ~Owned(link_data.target_space_id)
        THEN [links |-> tbl, status_code |-> 404]
        ELSE IF link_data.source_space_id = link_data.target_space_id
        THEN [links |-> tbl, status_code |-> 400]
        ELSE IF existing_link
        THEN [links |-> tbl, status_code |-> 400]
        ELSE IF row.source_space_id = row.target_space_id
                \/ \E i \in 1..Len(tbl) : tbl[i] = row
        THEN [links |-> tbl, status_code |-> 500]
        ELSE [links |-> Append(tbl, row), status_code |-> 200]

\* DELETE /searchspaces/links/{source_space_id}/{target_space_id}: a
\* rowcount of 0 is a 404
unlink_search_spaces(tbl, link_data) ==
    LET Owned(id) == \E i \in 1..Len(SearchSpaces) :
                        /\ SearchSpaces[i].id = id
                        /\ SearchSpaces[i].user_id = link_data.user_id
        kept == SelectSeq(tbl, LAMBDA l :
                    ~(/\ l.source_space_id = link_data.source_space_id
                      /\ l.target_space_id = link_data.target_space_id))
    IN  IF ~Owned(link_data.source_space_id) \/ ~Owned(link_data.target_space_id)
        THEN [links |-> tbl, status_code |-> 404]
        ELSE IF Len(kept) = Len(tbl)
        THEN [links |-> tbl, status_code |-> 404]
        ELSE [links |-> kept, status_code |-> 200]

link ==
    /\ ret = NoCall
    /\ reminders = NoRun
    /\ \E link_data \in LinkRequests :
         LET r == link_search_spaces(links, link_data) IN
         /\ links' = r.links
         /\ ret' = [args |-> link_data] @@
                   [NoCall EXCEPT !.op = "link", !.exc = r.status_code # 200,
                                  !.status_code = r.status_code]
    /\ UNCHANGED <<tasks, docs, chats, now, everDone, probe, insight,
                   materials, attempt_log, reminders, sessions, schedule>>

unlink ==
    /\ ret = NoCall
    /\ reminders = NoRun
    /\ \E link_data \in LinkRequests :
         LET r == unlink_search_spaces(links, link_data) IN
         /\ links' = r.links
         /\ ret' = [args |-> link_data] @@
                   [NoCall EXCEPT !.op = "unlink", !.exc = r.status_code # 200,
                                  !.status_code = r.status_code]
    /\ UNCHANGED <<tasks, docs, chats, now, everDone, probe, insight,
                   materials, attempt_log, reminders, sessions, schedule>>

\* what happens to one reminder: the mail is sent, send_html_email answers
\* (False, message), something raises inside generate_and_send_reminder, or
\* the service object cannot be built
Outcomes == {"sent", "send_failed", "raised", "init_raised"}

\* select(User, SearchSpace).join(...).where(User.email.isnot(None))
\* .distinct(User.id): one row for each user with an email and a search
\* space, with any one of the user's search spaces, in any order
UserSearchSpaces ==
    LET joined == {[user |-> UserRows[i], search_space |-> SearchSpaces[j]] :
                      i \in 1..Len(UserRows), j \in 1..Len(SearchSpaces)}
        matching == {r \in joined : /\ r.user.id = r.search_space.user_id
                                    /\ r.user.email # None}
        n == Cardinality({r.user.id : r \in matching})
    IN  {rows \in [1..n -> matching] :
            \A i, j \in 1..n : rows[i].user.id = rows[j].user.id => i = j}

\* ActivityReminderService.generate_and_send_reminder: every exception is
\* caught and answered with (False, "Error: ...", None)
generate_and_send_reminder(outcome) ==
    CASE outcome = "sent" -> [success |-> TRUE, message |-> "Reminder sent!", insights |-> TRUE]
      [] outcome = "send_failed" -> [success |-> FALSE, message |-> "Failed", insights |-> TRUE]
      [] OTHER -> [success |-> FALSE, message |-> "Error", insights |-> FALSE]

\* bug: the loop has no try/except of its own, the first exception ends it
\* and the outer handler answers
send_all_reminders_abort(user_search_spaces, outcomes) ==
    LET n == Len(user_search_spaces)
        bad == {i \in 1..n : outcomes[i] = "init_raised"}
        last == IF bad = {} THEN n ELSE CHOOSE i \in bad : \A j \in bad : i <= j
    IN  [attempts |-> [i \in 1..last |->
                         [user_id |-> user_search_spaces[i].user.id,
                          search_space_id |-> user_search_spaces[i].search_space.id,
                          called |-> outcomes[i] # "init_raised",
                          success |-> outcomes[i] = "sent"]],
         result |-> IF bad = {}
                    THEN [status |-> "success", total_users |-> n, error |-> ""]
                    ELSE [status |-> "error", total_users |-> 0, error |-> "Exception"]]

\* the loop of send_all_reminders over the rows and the dict it returns
send_all_reminders(user_search_spaces, outcomes) ==
    LET n == Len(user_search_spaces) IN
    [attempts |-> [i \in 1..n |->
        LET called == outcomes[i] # "init_raised"
            sent == called /\ generate_and_send_reminder(outcomes[i]).success
        IN  [user_id |-> user_search_spaces[i].user.id,
             search_space_id |-> user_search_spaces[i].search_space.id,
             called |-> called,
             success |-> sent]],
     result |-> [status |-> "success", total_users |-> n, error |-> ""]]

\* the Celery task send_all_activity_reminders; the query itself may raise
send_all_activity_reminders ==
    /\ ret = NoCall
    /\ reminders = NoRun
    /\ \/ reminders' = [NoRun EXCEPT !.op = "run",
                           !.result = [status |-> "error", total_users |-> 0,
                                       error |-> "DBAPIError"]]
       \/ \E user_search_spaces \in UserSearchSpaces :
            \E outcomes \in [1..Len(user_search_spaces) -> Outcomes] :
              LET r == send_all_reminders(user_search_spaces, outcomes) IN
              reminders' = [NoRun EXCEPT !.op = "run", !.queried = TRUE,
                               !.rows = user_search_spaces,
                               !.attempts = r.attempts, !.result = r.result]
    /\ UNCHANGED <<tasks, docs, chats, now, ret, everDone, probe, insight,
                   materials, attempt_log, links, sessions, schedule>>

\* the result of the run has been stored
RunReturn ==
    /\ reminders # NoRun
    /\ reminders' = NoRun
    /\ UNCHANGED <<tasks, docs, chats, now, ret, everDone, probe, insight,
                   materials, attempt_log, links, sessions, schedule>>

InitServices ==
    /\ tasks = <<>>
    /\ docs = <<>>
    /\ chats = <<>>
    /\ now = StartTime
    /\ ret = NoCall
    /\ everDone = {}
    /\ probe = NoProbe
    /\ insight = NoInsight
    /\ materials = StudyMaterials
    /\ attempt_log = <<>>
    /\ links = <<>>
    /\ reminders = NoRun
    /\ sessions = <<>>
    /\ schedule = NoSchedule

NextServices ==
    \/ Tick
    \/ Return
    \/ study_attempt
    \/ link
    \/ unlink
    \/ send_all_activity_reminders
    \/ RunReturn

SpecServices == InitServices /\ [][NextServices]_vars

\* ===================================================== concurrent syncs
\* Each POST /tasks/sync runs sync_tasks_from_connectors on its own database
\* session, one transaction that ends with the single commit().  A step is
\* one record of the loop: the lookup and the flush of the row it writes.
\* A transaction reads the committed rows and its own writes (READ
\* COMMITTED); an UPDATE of a row another transaction has written waits for
\* that transaction to end.
MaxSessions == 2
MaxRaceTasks == 3

IdleSession ==
    [pc |-> "idle", search_space_id |-> 0, user_id |-> "", connector_types |-> <<>>,
     todo |-> <<>>, inserted |-> <<>>, updated |-> <<>>, synced |-> <<>>,
     error |-> ""]

\* the rows a session's statements see
SessionView(committed, session) ==
    [i \in 1..Len(committed) |->
        IF i \in DOMAIN session.updated THEN session.updated[i] ELSE committed[i]]
    \o session.inserted

\* the connector documents of the call, in the order the loops reach them
RECURSIVE SessionTodo(_, _, _)
SessionTodo(dtbl, search_space_id, connector_types) ==
    IF connector_types = <<>> THEN <<>>
    ELSE LET connector_docs == ConnectorDocs(dtbl, search_space_id, Head(connector_types))
         IN  [k \in 1..Len(connector_docs) |->
                [doc |-> connector_docs[k], connector_type |-> Head(connector_types)]]
             \o SessionTodo(dtbl, search_space_id, Tail(connector_types))

\* the id of the next inserted row: tasks_id_seq gives one that no row
\* holds, here the least one, which keeps the ids of the model bounded
NextTaskId ==
    LET used == {tasks[i].id : i \in 1..Len(tasks)}
                \cup UNION {{sessions[s].inserted[k].id :
                                k \in 1..Len(sessions[s].inserted)} :
                            s \in DOMAIN sessions}
    IN  CHOOSE m \in 1..(Cardinality(used) + 1) :
            /\ m \notin used
            /\ \A u \in 1..(m - 1) : u \in used

\* a request enters sync_tasks_from_connectors on a fresh session
sync_begin ==
    \E s \in DOMAIN sessions, sync_req \in SyncRequests :
        /\ sessions[s].pc = "idle"
        /\ sessions' = [sessions EXCEPT ![s] =
              [IdleSession EXCEPT
                  !.pc = "running",
                  !.search_space_id = sync_req.search_space_id,
                  !.user_id = sync_req.user_id,
                  !.connector_types = sync_req.connector_types,
                  !.todo = SessionTodo(docs, sync_req.search_space_id,
                                       sync_req.connector_types)]]
        /\ UNCHANGED <<tasks, docs, chats, now, ret, everDone, probe, insight,
                       materials, attempt_log, links, reminders, schedule>>

\* the next record of the loop: lookup, then update or add, then flush; an
\* exception rolls the transaction back
sync_record ==
    \E s \in DOMAIN sessions :
        LET me == sessions[s]
            item == Head(me.todo)
            view == SessionView(tasks, me)
            st == SyncDoc([tbl |-> view, synced |-> <<>>, done |-> {}, exc |-> FALSE],
                          item.doc, me.search_space_id, me.user_id,
                          item.connector_type, now)
            i == st.synced[1]
            pending == Len(tasks) + Cardinality(UNION {
                           {<<o, k>> : k \in 1..Len(sessions[o].inserted)} :
                           o \in DOMAIN sessions})
        IN
        /\ me.pc = "running"
        /\ me.todo # <<>>
        /\ IF st.exc
           THEN sessions' = [sessions EXCEPT ![s] =
                                [IdleSession EXCEPT !.error = "MultipleResultsFound"]]
           ELSE IF st.synced = <<>>
           THEN sessions' = [sessions EXCEPT ![s].todo = Tail(me.todo)]
           ELSE IF Len(st.tbl) > Len(view)
           THEN /\ pending < MaxRaceTasks
                /\ sessions' = [sessions EXCEPT
                      ![s].todo = Tail(me.todo),
                      ![s].inserted = Append(me.inserted,
                                             [st.tbl[i] EXCEPT !.id = NextTaskId]),
                      ![s].synced = Append(me.synced, NextTaskId)]
           ELSE IF i > Len(tasks)
           THEN sessions' = [sessions EXCEPT
                      ![s].todo = Tail(me.todo),
                      ![s].inserted[i - Len(tasks)] = st.tbl[i],
                      ![s].synced = Append(me.synced, st.tbl[i].id)]
           ELSE /\ \A o \in DOMAIN sessions : o # s => i \notin DOMAIN sessions[o].updated
                /\ sessions' = [sessions EXCEPT
                      ![s].todo = Tail(me.todo),
                      ![s].updated = (i :> st.tbl[i]) @@ me.updated,
                      ![s].synced = Append(me.synced, st.tbl[i].id)]
        /\ UNCHANGED <<tasks, docs, chats, now, ret, everDone, probe, insight,
                       materials, attempt_log, links, reminders, schedule>>

\* await self.session.commit(): the rows written become the committed rows
sync_commit ==
    \E s \in DOMAIN sessions :
        LET me == sessions[s]
            written == SessionView(tasks, me)
        IN
        /\ me.pc = "running"
        /\ me.todo = <<>>
        /\ tasks' = written
        /\ everDone' = everDone \cup
              {written[i].id : i \in {j \in 1..Len(written) :
                  /\ written[j].status = "DONE"
                  /\ \E k \in 1..Len(me.synced) : me.synced[k] = written[j].id}}
        /\ sessions' = [sessions EXCEPT ![s] = IdleSession]
        /\ UNCHANGED <<docs, chats, now, ret, probe, insight,
                       materials, attempt_log, links, reminders, schedule>>

InitRace ==
    /\ tasks = <<>>
    /\ docs \in DocTables
    /\ chats = ChatTable
    /\ now = StartTime
    /\ ret = NoCall
    /\ everDone = {}
    /\ probe = NoProbe
    /\ insight = NoInsight
    /\ materials = <<>>
    /\ attempt_log = <<>>
    /\ links = <<>>
    /\ reminders = NoRun
    /\ sessions = [s \in 1..MaxSessions |-> IdleSession]
    /\ schedule = NoSchedule

NextRace ==
    \/ Tick
    \/ sync_begin
    \/ sync_record
    \/ sync_commit

SpecRace == InitRace /\ [][NextRace]_vars

\* ============================================================ demo tasks
MaxDemoCalls == 2

\* demo_tasks of POST /tasks/sync-demo: the titles without their emoji,
\* the opening words of the descriptions, due_offset in days
DemoTasks ==
    <<[title |-> "Submit Q4 financial report to board",
       description |-> "Compile and finalize Q4 financial statements",
       priority |-> "URGENT", due_offset |-> -1],
      [title |-> "Respond to client complaint about delayed shipment",
       description |-> "Major client (Acme Corp) is upset",
       priority |-> "URGENT", due_offset |-> 0],
      [title |-> "Prepare presentation for Monday's team meeting",
       description |-> "Create slides covering project status updates",
       priority |-> "HIGH", due_offset |-> 1],
      [title |-> "Review and approve vacation requests",
       description |-> "Process 8 pending vacation requests",
       priority |-> "HIGH", due_offset |-> 2],
      [title |-> "Update employee handbook with new policies",
       description |-> "Incorporate new remote work policy",
       priority |-> "HIGH", due_offset |-> 3],
      [title |-> "Schedule interviews for Marketing Manager position",
       description |-> "Coordinate with 5 candidates and 3 interviewers",
       priority |-> "MEDIUM", due_offset |-> 5],
      [title |-> "Organize team building event for next month",
       description |-> "Research venue options",
       priority |-> "MEDIUM", due_offset |-> 7],
      [title |-> "Update customer contact database",
       description |-> "Clean up duplicate entries",
       priority |-> "MEDIUM", due_offset |-> 10],
      [title |-> "Research new project management software options",
       description |-> "Compare 3-4 tools",
       priority |-> "LOW", due_offset |-> 14],
      [title |-> "Archive old project files to cloud storage",
       description |-> "Move completed project files",
       priority |-> "LOW", due_offset |-> 21]>>

\* the Task objects the loop of sync_demo_tasks adds to the session: one
\* for each demo task, with external_id f"DEMO-{i:03d}", without any lookup
DemoRows(tbl, sync_req, t) ==
    [i \in 1..Len(DemoTasks) |->
        [id |-> Len(tbl) + i,
         search_space_id |-> sync_req.search_space_id,
         user_id |-> sync_req.user_id,
         title |-> DemoTasks[i].title,
         description |-> DemoTasks[i].description,
         source_type |-> "LINEAR",
         external_id |-> "DEMO-" \o (IF i < 10 THEN "00" ELSE "0") \o ToString(i),
         external_url |-> "https://linear.app/surfsense/issue/DEMO-"
                          \o (IF i < 10 THEN "00" ELSE "0") \o ToString(i),
         external_metadata |-> "Demo",
         status |-> "UNDONE",
         priority |-> DemoTasks[i].priority,
         due_date |-> t + 24 * DemoTasks[i].due_offset,
         created_at |-> t,
         updated_at |-> t,
         completed_at |-> NoTime,
         linked_chat_ids |-> <<>>,
         linked_document_ids |-> <<>>]]

\* POST /tasks/sync-demo: the rows are committed together; when the commit
\* raises, the session is rolled back and the answer is a 500
sync_demo ==
    /\ ret = NoCall
    /\ Len(tasks) < MaxDemoCalls * Len(DemoTasks)
    /\ \E sync_req \in SyncRequests, commit_raises \in BOOLEAN :
         LET created_tasks == DemoRows(tasks, sync_req, now)
             error == IF commit_raises THEN "DBAPIError" ELSE ""
             call == [NoCall EXCEPT !.op = "sync-demo",
                                    !.search_space_id = sync_req.search_space_id,
                                    !.user_id = sync_req.user_id,
                                    !.connector_types = sync_req.connector_types]
         IN  /\ tasks' = IF commit_raises THEN tasks ELSE tasks \o created_tasks
             /\ ret' = [call EXCEPT
                          !.exc = commit_raises,
                          !.error = error,
                          !.status_code = RouteStatus(error),
                          !.value = IF commit_raises THEN <<>>
                                    ELSE [i \in 1..Len(created_tasks) |->
                                            created_tasks[i].id]]
    /\ UNCHANGED <<docs, chats, now, everDone, probe, insight, services>>

InitDemo ==
    /\ tasks = <<>>
    /\ docs \in DocTables
    /\ chats = ChatTable
    /\ now = StartTime
    /\ ret = NoCall
    /\ everDone = {}
    /\ probe = NoProbe
    /\ insight = NoInsight
    /\ ServicesIdle

NextDemo ==
    \/ Tick
    \/ Return
    \/ sync_demo

SpecDemo == InitDemo /\ [][NextDemo]_vars

\* ================================================================ claims
\* the tasks table without updated_at
StripUpdatedAt(tbl) == [i \in 1..Len(tbl) |-> [tbl[i] EXCEPT !.updated_at = NoTime]]

\* C1: right after a sync call has returned, the same sync call made again,
\* at the same or any later time and with the documents unchanged, creates
\* no task and leaves every task with the same id and the same field
\* values, updated_at excepted.
C1_SyncIdempotent ==
    (ret.op = "sync" /\ ~ret.exc) =>
        \A t2 \in now..MaxTime :
            LET again == sync_tasks_from_connectors(tasks, docs, ret.search_space_id,
                                                 ret.user_id, ret.connector_types, t2)
            IN  /\ ~again.exc
                /\ Len(again.tbl) = Len(tasks)
                /\ StripUpdatedAt(again.tbl) = StripUpdatedAt(tasks)
                /\ again.synced = ret.value

\* a sync returned tasks, one of them DONE and stamped, and there is a later
\* time at which the second call can run
C1_Witness ==
    /\ ret.op = "sync" /\ ~ret.exc
    /\ now < MaxTime
    /\ \E k \in 1..Len(ret.value) :
          /\ tasks[ret.value[k]].status = "DONE"
          /\ tasks[ret.value[k]].completed_at # NoTime

\* C2: no two tasks of the same search space have the same source_type and
\* the same non-null external_id, in every state sync, create_manual and
\* complete can reach.
C2_ExternalIdUnique ==
    \A i, j \in 1..Len(tasks) :
        (/\ i # j
         /\ tasks[i].search_space_id = tasks[j].search_space_id
         /\ tasks[i].source_type = tasks[j].source_type
         /\ tasks[i].external_id # None)
        => tasks[i].external_id # tasks[j].external_id

\* one sync call processed two documents that derive the same external_id
C2_Witness ==
    /\ ret.op = "sync"
    /\ \E k, l \in 1..Len(ret.value) : k # l /\ ret.value[k] = ret.value[l]

\* C3: a sync never changes a completed_at that is set; it sets a
\* completed_at that was not set to the current time when it maps the
\* task's record to DONE, and only then.
C3_SyncFirstCompletionWins ==
    [][(ret.op = "none" /\ ret'.op = "sync") =>
        /\ \A i \in 1..Len(tasks) :
              /\ tasks[i].completed_at # NoTime
                    => tasks'[i].completed_at = tasks[i].completed_at
              /\ (tasks[i].completed_at = NoTime /\ tasks'[i].completed_at # NoTime)
                    => (tasks'[i].completed_at = now /\ i \in everDone' \ everDone)
              /\ (tasks[i].completed_at = NoTime /\ tasks'[i].status = "DONE")
                    => tasks'[i].completed_at = now
        /\ \A i \in (Len(tasks) + 1)..Len(tasks') :
              /\ tasks'[i].completed_at \in {NoTime, now}
              /\ tasks'[i].completed_at = now <=> i \in everDone'
       ]_vars

\* a sync at a later time mapped a task to DONE that was stamped before
C3_Witness ==
    /\ ret.op = "sync" /\ ~ret.exc
    /\ \E k \in 1..Len(ret.value) :
          /\ tasks[ret.value[k]].status = "DONE"
          /\ tasks[ret.value[k]].updated_at = now
          /\ tasks[ret.value[k]].completed_at # NoTime
          /\ tasks[ret.value[k]].completed_at < now

\* C4: complete on a task the user owns ends with status DONE and with
\* completed_at and updated_at both the time of the call, whatever the
\* completed_at was before; it fails only when the user owns no such task.
C4_CompleteStampsNow ==
    ret.op = "complete" =>
        LET owned == {i \in 1..Len(tasks) :
                         tasks[i].id = ret.task_id /\ tasks[i].user_id = ret.user_id}
        IN  /\ ret.exc <=> owned = {}
            /\ \A i \in owned :
                  /\ ret.value = <<i>>
                  /\ tasks[i].status = "DONE"
                  /\ tasks[i].completed_at = now
                  /\ tasks[i].updated_at = now

\* a task completed at T1 was completed again at T3 > T1
C4_Witness ==
    /\ ret.op = "complete" /\ ~ret.exc
    /\ ret.before # NoTime
    /\ ret.before < now
    /\ tasks[ret.value[1]].completed_at = now

\* C5: a task has a completed_at exactly when its status has been DONE at
\* some point, and a completed_at that is set is never cleared.
C5_CompletedAtIffEverDone ==
    /\ [](\A i \in 1..Len(tasks) : tasks[i].completed_at # NoTime <=> i \in everDone)
    /\ [][\A i \in 1..Len(tasks) :
              tasks[i].completed_at # NoTime
                  => (tasks'[i].completed_at # NoTime /\ i \in 1..Len(tasks'))]_vars

\* a sync mapped a completed task back to UNDONE and the stamp is still there
C5_Witness ==
    /\ ret.op = "sync" /\ ~ret.exc
    /\ \E k \in 1..Len(ret.value) :
          /\ tasks[ret.value[k]].status = "UNDONE"
          /\ tasks[ret.value[k]].completed_at # NoTime

\* C6: in the list filtered returns, no task is greater than the task that
\* follows it: with sort_by_priority, under priority rank (URGENT 1, HIGH 2,
\* MEDIUM 3, LOW 4, otherwise 5), then due_date ascending with the tasks
\* without a due date last, then created_at ascending; without it, under
\* created_at descending.
C6_FilteredOrdered ==
    ret.op = "filter" =>
        \A k \in 1..(Len(ret.value) - 1) :
            LET a == tasks[ret.value[k]]
                b == tasks[ret.value[k + 1]]
                rank(p) == CASE p = "URGENT" -> 1 [] p = "HIGH" -> 2
                             [] p = "MEDIUM" -> 3 [] p = "LOW" -> 4 [] OTHER -> 5
                dueGreater == \/ a.due_date = NoTime /\ b.due_date # NoTime
                              \/ /\ a.due_date # NoTime /\ b.due_date # NoTime
                                 /\ a.due_date > b.due_date
                dueEqual == a.due_date = b.due_date
            IN  IF ret.sort_by_priority
                THEN ~(\/ rank(a.priority) > rank(b.priority)
                       \/ rank(a.priority) = rank(b.priority) /\ dueGreater
                       \/ /\ rank(a.priority) = rank(b.priority) /\ dueEqual
                          /\ a.created_at > b.created_at)
                ELSE ~(a.created_at < b.created_at)

\* a priority sort returned a task with a due date before an older task of
\* the same rank without one
C6_Witness ==
    /\ ret.op = "filter" /\ ret.sort_by_priority
    /\ Len(ret.value) = 2
    /\ ret.value[1] > ret.value[2]
    /\ tasks[ret.value[1]].priority = tasks[ret.value[2]].priority
    /\ tasks[ret.value[1]].due_date # NoTime
    /\ tasks[ret.value[2]].due_date = NoTime

\* C7 as stated: filtered returns exactly the tasks of the given search
\* space and user whose status equals the given status when one is given
\* (left out or null: not given), each once.
C7_FilteredExactAsStated ==
    ret.op = "filter" =>
        /\ {ret.value[k] : k \in 1..Len(ret.value)} =
              {i \in 1..Len(tasks) :
                  /\ tasks[i].search_space_id = ret.search_space_id
                  /\ tasks[i].user_id = ret.user_id
                  /\ (ret.status \notin {Omitted, None} => tasks[i].status = ret.status)}
        /\ \A k, l \in 1..Len(ret.value) : ret.value[k] = ret.value[l] => k = l

\* C7 amended: filtered returns exactly the tasks of the given search space
\* and user, each once, restricted to the UNDONE tasks when the request
\* leaves the status out, to the tasks of the given status when it is a
\* non-empty string, and not restricted by status when it is null or empty.
C7_FilteredExact ==
    ret.op = "filter" =>
        LET effective == IF ret.status = Omitted THEN "UNDONE" ELSE ret.status IN
        /\ {ret.value[k] : k \in 1..Len(ret.value)} =
              {i \in 1..Len(tasks) :
                  /\ tasks[i].search_space_id = ret.search_space_id
                  /\ tasks[i].user_id = ret.user_id
                  /\ (effective \notin {None, ""} => tasks[i].status = effective)}
        /\ \A k, l \in 1..Len(ret.value) : ret.value[k] = ret.value[l] => k = l

\* a request without a status returned an UNDONE task and left out a DONE
\* task of the same user and search space
C7_Witness ==
    /\ ret.op = "filter" /\ ret.status = Omitted
    /\ ret.value # <<>>
    /\ \E i \in 1..Len(tasks) :
          /\ tasks[i].search_space_id = ret.search_space_id
          /\ tasks[i].user_id = ret.user_id
          /\ tasks[i].status = "DONE"
          /\ \A k \in 1..Len(ret.value) : ret.value[k] # i

\* C8: the task a sync stores for a record is DONE exactly when the record's
\* status name (TODO when it has none) is DONE, CLOSED, COMPLETED or
\* RESOLVED, whatever the case of its letters, and UNDONE otherwise.
C8_StatusMapping ==
    (ret.op = "sync" /\ ~ret.exc /\ ret.value # <<>>) =>
        LET name == IF probe.connector_type = "LINEAR"
                    THEN probe.metadata.state_name
                    ELSE probe.metadata.fields_status_name
            raw == IF name.k = "absent" THEN cTODO ELSE name.v
            sameLetter(c, d) ==
                c = d \/ \E n \in 1..26 : LowerCase[n] = c /\ UpperCase[n] = d
            caseless(a, w) ==
                Len(a) = Len(w) /\ \A n \in 1..Len(a) : sameLetter(a[n], w[n])
            done == \E w \in {cDONE, cCLOSED, cCOMPLETED, cRESOLVED} : caseless(raw, w)
        IN  tasks[ret.value[1]].status = IF done THEN "DONE" ELSE "UNDONE"

\* a sync stored DONE for a record whose status name is "Resolved"
C8_Witness ==
    /\ ret.op = "sync" /\ ~ret.exc /\ ret.value # <<>>
    /\ probe.connector_type = "JIRA"
    /\ probe.metadata.fields_status_name = StrN(<<"R","e","s","o","l","v","e","d">>)
    /\ tasks[ret.value[1]].status = "DONE"

\* C9: no extractor raises, whatever the metadata and the source tag:
\* extract_priority and extract_due_date give a value or absent and
\* extract_status gives a string.
C9_ExtractorsTotal ==
    probe.done =>
        /\ ~probe.priority.exc
        /\ ~probe.due_date.exc
        /\ ~probe.status_raw.exc

\* C10: is_task holds exactly for a LINEAR record whose type is "issue" or
\* that has the key "issue", and for a JIRA record whose issue_key is
\* non-null or that has the key "fields"; a sync of source tags other than
\* LINEAR and JIRA changes no task and returns the empty list.
C10_IsTaskPolicy ==
    /\ [](probe.done =>
            (probe.is_task <=>
                \/ /\ probe.connector_type = "LINEAR"
                   /\ \/ probe.metadata.type = JStr("issue")
                      \/ probe.metadata.issue.k # "absent"
                \/ /\ probe.connector_type = "JIRA"
                   /\ \/ probe.metadata.issue_key.k \notin {"absent", "null"}
                      \/ probe.metadata.fields.k # "absent"))
    /\ [][(/\ ret.op = "none" /\ ret'.op = "sync"
           /\ \A k \in 1..Len(ret'.connector_types) :
                 ret'.connector_types[k] \notin {"LINEAR", "JIRA"})
          => (tasks' = tasks /\ ret'.value = <<>> /\ ~ret'.exc)]_vars

\* with a task stored, a sync of SLACK and GITHUB met the Slack message that
\* carries the issue marker and returned the empty list
C10_Witness ==
    /\ ret.op = "sync" /\ ret.connector_types = <<"SLACK", "GITHUB">>
    /\ tasks # <<>>
    /\ probe.done /\ probe.is_task
    /\ ret.value = <<>>

C12_ExternalIdDerived ==
    LET m == probe.metadata
        has(x) == x.k = "str" /\ x.v # ""
        expected == IF has(m.id) THEN m.id.v
                    ELSE IF has(m.issue_key) THEN m.issue_key.v
                    ELSE ToString(docs[1].id)
    IN  /\ \A i \in 1..Len(tasks) :
              /\ tasks[i].external_id # None
              /\ tasks[i].external_id # ""
        /\ (ret.op = "sync" /\ ret.value # <<>>)
              => tasks[ret.value[1]].external_id = expected

\* a record without id and with a null issue_key was synced under the
\* string of its document id
C12_Witness ==
    /\ ret.op = "sync" /\ ret.value # <<>>
    /\ probe.metadata.id = JAbsent
    /\ probe.metadata.issue_key = JNull
    /\ tasks[ret.value[1]].external_id = "7"

\* C13: a sync call that fails, while processing a record or in its final
\* commit, leaves the stored tasks exactly as they were before the call,
\* and the caller gets the error and no task list.
C13_SyncAllOrNothing ==
    [][(ret.op = "none" /\ ret'.op = "sync" /\ ret'.exc)
          => (tasks' = tasks /\ ret'.value = <<>>)]_vars

\* a sync failed in a call that had created or updated a task before the
\* failure
C13_Witness ==
    /\ ret.op = "sync" /\ ret.exc
    /\ LET r == sync_tasks_from_connectors(tasks, docs, ret.search_space_id,
                                           ret.user_id, ret.connector_types, now)
       IN  r.exc /\ r.tbl # tasks


\* the rows of the tasks table with this id owned by this user
OwnedRows(task_id, user_id) ==
    {i \in 1..Len(tasks) : tasks[i].id = task_id /\ tasks[i].user_id = user_id}

\* C14: complete(task_id, user_id) with an id that does not exist, or with the
\* id of a task owned by another user, fails with a not-found error
\* (NoResultFound) and leaves every task unchanged.
C14_CompleteNotFound ==
    [][(/\ ret = NoCall
        /\ ret'.op = "complete"
        /\ OwnedRows(ret'.task_id, ret'.user_id) = {})
       => (/\ ret'.exc
           /\ ret'.error = "NoResultFound"
           /\ ret'.value = <<>>
           /\ tasks' = tasks)]_vars

\* a complete call by a user on a task that exists and is owned by another user
C14_Witness ==
    /\ ret.op = "complete"
    /\ ret.exc
    /\ \E i \in 1..Len(tasks) :
         tasks[i].id = ret.task_id /\ tasks[i].user_id # ret.user_id

\* C15: a task lookup by id that yields nothing is answered with 404 by both
\* POST /tasks/complete and GET /tasks/{task_id}, not with a server error.
C15_NotFoundIs404 ==
    (/\ ret.op \in {"complete", "get"}
     /\ OwnedRows(ret.task_id, ret.user_id) = {})
    => ret.status_code = 404


\* the ids held by a link list
Linked(list) == {list[k] : k \in 1..Len(list)}

\* the rows of a table in this search space created in the 2 hours ending now
InWindow(tbl, search_space_id) ==
    {i \in 1..Len(tbl) :
        /\ tbl[i].search_space_id = search_space_id
        /\ tbl[i].created_at >= now - LinkWindowHours
        /\ tbl[i].created_at <= now}

\* a link list holds at most 5 ids, all of rows of the space in the window
LinksBounded(tbl, list, search_space_id) ==
    /\ Len(list) <= LinkLimit
    /\ \A k \in 1..Len(list) :
         \E i \in InWindow(tbl, search_space_id) : tbl[i].id = list[k]

\* C16: after complete succeeds, linked_chat_ids holds at most 5 chat ids and
\* linked_document_ids at most 5 document ids, all of the task's search space
\* and created within the 2 hours ending at the call; earlier contents of the
\* lists are replaced; a chat created 3 hours before the call is never linked
\* and one created 1 hour before is linked when the space has at most 5 chats
\* in the window.
C16_LinksWithinWindow ==
    (ret.op = "complete" /\ ~ret.exc) =>
        LET task == tasks[ret.value[1]] IN
        /\ LinksBounded(chats, task.linked_chat_ids, task.search_space_id)
        /\ LinksBounded(docs, task.linked_document_ids, task.search_space_id)
        /\ \A i \in 1..Len(chats) :
             /\ chats[i].created_at = now - 3
                  => chats[i].id \notin Linked(task.linked_chat_ids)
             /\ (/\ chats[i].created_at = now - 1
                 /\ chats[i].search_space_id = task.search_space_id
                 /\ Cardinality(InWindow(chats, task.search_space_id)) <= LinkLimit)
                  => chats[i].id \in Linked(task.linked_chat_ids)

\* a task completed for the second time, an hour after the first, in a space
\* with 6 chats: 4 are linked, and the two chats now 3 hours old are not
C16_Witness ==
    /\ ret.op = "complete"
    /\ ~ret.exc
    /\ ret.before # NoTime
    /\ ret.before < now
    /\ Len(chats) > LinkLimit
    /\ Len(tasks[ret.value[1]].linked_chat_ids) = 4
    /\ \E i \in 1..Len(chats) :
         /\ chats[i].search_space_id = tasks[ret.value[1]].search_space_id
         /\ chats[i].created_at = now - 3

\* C17: when more than 5 chats (or documents) of the task's search space are
\* in the window, complete links the 5 most recently created of them: no
\* unlinked row in the window has a later created_at than a linked one.
MostRecentLinked(tbl, list, search_space_id) ==
    \A i, j \in InWindow(tbl, search_space_id) :
        (tbl[i].id \notin Linked(list) /\ tbl[j].id \in Linked(list))
            => tbl[i].created_at <= tbl[j].created_at

C17_MostRecentLinked ==
    (ret.op = "complete" /\ ~ret.exc) =>
        LET task == tasks[ret.value[1]] IN
        /\ MostRecentLinked(chats, task.linked_chat_ids, task.search_space_id)
        /\ MostRecentLinked(docs, task.linked_document_ids, task.search_space_id)


\* C18: create_manual(task_data, user_id) creates exactly one new task owned
\* by user_id with source "MANUAL", status UNDONE, no external_id,
\* external_url or external_metadata and no completed_at, whose title,
\* description, priority and due_date are those of task_data; and in every
\* reachable state a task with source "MANUAL" has no external_id.
C18_ManualTask ==
    /\ [](\A i \in 1..Len(tasks) :
            tasks[i].source_type = "MANUAL" => tasks[i].external_id = None)
    /\ [][(ret = NoCall /\ ret'.op = "create") =>
            /\ Len(tasks') = Len(tasks) + 1
            /\ SubSeq(tasks', 1, Len(tasks)) = tasks
            /\ LET new_task == tasks'[Len(tasks')] IN
               /\ ret'.value = <<new_task.id>>
               /\ new_task.user_id = ret'.user_id
               /\ new_task.source_type = "MANUAL"
               /\ new_task.status = "UNDONE"
               /\ new_task.external_id = None
               /\ new_task.external_url = None
               /\ new_task.external_metadata = None
               /\ new_task.completed_at = NoTime
               /\ \E task_data \in CreateRequests :
                    /\ task_data.user_id = new_task.user_id
                    /\ task_data.search_space_id = new_task.search_space_id
                    /\ task_data.title = new_task.title
                    /\ task_data.description = new_task.description
                    /\ task_data.priority = new_task.priority
                    /\ task_data.due_date = new_task.due_date]_vars

\* a manual task created next to a task synced from a connector
C18_Witness ==
    /\ ret.op = "create"
    /\ tasks[ret.value[1]].source_type = "MANUAL"
    /\ tasks[ret.value[1]].description # None
    /\ \E i \in 1..Len(tasks) :
         tasks[i].source_type # "MANUAL" /\ tasks[i].external_id # None


\* the LLM call raised, or its reply is not a JSON document, or the document
\* does not validate as a plan
LlmFailed(reply) ==
    \/ reply.raises
    \/ json_loads(StripFences(reply.text)).exc
    \/ PlanFrom(json_loads(StripFences(reply.text)).val).exc

Matching(call) ==
    {j \in 1..Len(docs) :
        /\ docs[j].search_space_id = call.search_space_id
        /\ SearchSpaceOwner[call.search_space_id] = call.user_id
        /\ \/ call.include_connectors /\ IsConnectorType(docs[j].document_type)
           \/ call.include_files /\ docs[j].document_type = "FILE"}

\* C20: generate_insights_and_plan raises ValueError before any LLM is
\* invoked when include_connectors and include_files are both false (before
\* any document is fetched) and when no document is found in the search
\* space; in both cases no InsightResponse is returned.
C20_RejectsUnusable ==
    insight.op = "insights" =>
        /\ (~insight.include_connectors /\ ~insight.include_files)
             => /\ insight.exc
                /\ insight.error = "ValueError"
                /\ ~insight.fetched
                /\ insight.llm_lookups = 0
                /\ insight.llm_calls = 0
                /\ insight.response = NoResponse
        /\ Matching(insight) = {}
             => /\ insight.exc
                /\ insight.error = "ValueError"
                /\ insight.llm_lookups = 0
                /\ insight.llm_calls = 0
                /\ insight.response = NoResponse

\* a call that includes both kinds of document on a search space whose only
\* documents are of another kind: they are fetched for, none is found
C20_Witness ==
    /\ insight.op = "insights"
    /\ insight.include_connectors
    /\ insight.include_files
    /\ \E j \in 1..Len(docs) :
         /\ docs[j].search_space_id = insight.search_space_id
         /\ SearchSpaceOwner[insight.search_space_id] = insight.user_id
    /\ insight.fetched
    /\ insight.exc
    /\ insight.error = "ValueError"

\* the documents a sync call processes for the task row `task`
ProcessedFor(call, task) ==
    {j \in 1..Len(docs) :
        /\ docs[j].search_space_id = call.search_space_id
        /\ \E k \in 1..Len(call.connector_types) :
             /\ call.connector_types[k] = task.source_type
             /\ docs[j].document_type = ConnectorDocType(task.source_type)
        /\ _is_task_document(Metadata(docs[j].document_metadata), task.source_type)
        /\ ExternalId(Metadata(docs[j].document_metadata), docs[j]) = task.external_id}

\* C23: a sync call that finds an existing task for a record overwrites
\* title, description, priority, due_date, status, external_metadata and
\* updated_at with the record's values, sets completed_at only when the task
\* had none and the record maps to DONE, and leaves id, user_id,
\* search_space_id, source_type, external_id, external_url, created_at,
\* linked_chat_ids and linked_document_ids as they were; a task that matches
\* no processed record is left entirely unchanged.
C23_SyncUpdateFrame ==
    [][(ret = NoCall /\ ret'.op = "sync" /\ ~ret'.exc) =>
        \A i \in 1..Len(tasks) :
            LET old == tasks[i]
                new == tasks'[i]
                hit == \E k \in 1..Len(ret'.value) : ret'.value[k] = i
            IN  /\ Len(tasks') >= Len(tasks)
                /\ ~hit => new = old
                /\ hit =>
                    /\ new.id = old.id
                    /\ new.user_id = old.user_id
                    /\ new.search_space_id = old.search_space_id
                    /\ new.source_type = old.source_type
                    /\ new.external_id = old.external_id
                    /\ new.external_url = old.external_url
                    /\ new.created_at = old.created_at
                    /\ new.linked_chat_ids = old.linked_chat_ids
                    /\ new.linked_document_ids = old.linked_document_ids
                    /\ new.updated_at = now
                    /\ \E j \in ProcessedFor(ret', old) :
                         LET metadata == Metadata(docs[j].document_metadata) IN
                         /\ new.title = docs[j].title
                         /\ new.description = Description(docs[j].content)
                         /\ new.external_metadata = docs[j].document_metadata
                         /\ new.priority = _extract_priority(metadata, old.source_type).val
                         /\ new.due_date = _extract_due_date(metadata, old.source_type).val
                         /\ new.status
                              = MapStatus(_extract_status(metadata, old.source_type).val)
                    /\ old.completed_at # NoTime => new.completed_at = old.completed_at
                    /\ old.completed_at = NoTime =>
                         \/ new.completed_at = NoTime /\ new.status # "DONE"
                         \/ /\ new.completed_at = now
                            /\ \E j \in ProcessedFor(ret', old) :
                                 MapStatus(_extract_status(
                                     Metadata(docs[j].document_metadata),
                                     old.source_type).val) = "DONE"
    ]_vars

\* a sync has just rewritten a task that was created earlier, completed and
\* linked to documents, while another task of the table matched no record
C23_Witness ==
    /\ ret.op = "sync"
    /\ ~ret.exc
    /\ \E i \in 1..Len(tasks) :
         /\ \E k \in 1..Len(ret.value) : ret.value[k] = i
         /\ tasks[i].created_at < tasks[i].updated_at
         /\ tasks[i].linked_document_ids # <<>>
    /\ \E i \in 1..Len(tasks) : \A k \in 1..Len(ret.value) : ret.value[k] # i

\* C24: every stored task's priority is URGENT, HIGH, MEDIUM or LOW, or is
\* absent, in every state that sync, manual creation and completion reach.
C24_PriorityEnum ==
    \A i \in 1..Len(tasks) :
        tasks[i].priority \in {"URGENT", "HIGH", "MEDIUM", "LOW", None}

\* C26: a sync called by one user creates or modifies only tasks owned by
\* that user; a task owned by a different user is neither updated by the
\* call nor included in the list the call returns.
C26_SyncOwnTasksOnly ==
    [][(ret = NoCall /\ ret'.op = "sync" /\ ~ret'.exc) =>
        /\ \A i \in 1..Len(tasks) :
             tasks[i].user_id # ret'.user_id =>
                 /\ tasks'[i] = tasks[i]
                 /\ \A k \in 1..Len(ret'.value) : ret'.value[k] # i
        /\ \A i \in (Len(tasks) + 1)..Len(tasks') :
             tasks'[i].user_id = ret'.user_id
    ]_vars

\* C29: _generate_fallback_plan returns, for every ActivityInsight, also
\* one with no connector activity, no files and no topics, a plan with a
\* non-empty title, description and estimated_timeframe and at least one
\* action item, each item with a priority of HIGH, MEDIUM or LOW.
C29_FallbackPlanValid ==
    insight.op = "fallback" =>
        LET plan == insight.response.plan IN
        /\ plan.title # ""
        /\ plan.description # <<>>
        /\ plan.description[1] # ""
        /\ plan.estimated_timeframe # ""
        /\ Len(plan.action_items) >= 1
        /\ \A i \in 1..Len(plan.action_items) :
             plan.action_items[i].priority \in {"HIGH", "MEDIUM", "LOW"}

\* the plan for an insight with no topic, no file and no connector item
C29_Witness ==
    /\ insight.op = "fallback"
    /\ insight.response.insights.key_topics = <<>>
    /\ insight.response.insights.connector_activity = <<>>
    /\ Len(insight.response.plan.action_items) = 1
    /\ insight.response.plan.action_items[1].title = "Continue current work"

\* C30: parse_schedule_interval returns crontab parameters for every input
\* string and never raises: "1m" gives every minute, "<n>m" minute "*/n",
\* "1h" minute 0 of every hour, "<n>h" hour "*/n", and a string it cannot
\* parse gives every minute.
C30_ParseNeverRaises ==
    schedule.op = "parse" =>
        /\ ~schedule.exc
        /\ schedule.interval = <<"1", "m">> => schedule.value = EveryMinute
        /\ schedule.interval = <<"5", "m">>
             => schedule.value = [minute |-> <<"*/", 5>>, hour |-> <<"*">>]
        /\ schedule.interval = <<"1", "h">>
             => schedule.value = [minute |-> <<"0">>, hour |-> <<"*">>]
        /\ schedule.interval = <<"5", "h">>
             => schedule.value = [minute |-> <<"0">>, hour |-> <<"*/", 5>>]
        /\ schedule.interval = <<"x">> => schedule.value = EveryMinute

\* the number of recorded attempts at material `id` among those in `which`
AttemptCount(id, which) ==
    Cardinality({k \in 1..Len(attempt_log) :
                    /\ attempt_log[k].material_id = id
                    /\ attempt_log[k].is_correct \in which})

\* C21: after any sequence of record_attempt calls on a study material that
\* starts at times_attempted = times_correct = 0, times_attempted is the
\* number of calls and times_correct the number of calls with is_correct
\* true, so times_correct never exceeds times_attempted; an incorrect
\* attempt leaves times_correct unchanged.
C21_AttemptCounts ==
    /\ [](\A i \in 1..Len(materials) :
            /\ materials[i].times_attempted = AttemptCount(materials[i].id, BOOLEAN)
            /\ materials[i].times_correct = AttemptCount(materials[i].id, {TRUE})
            /\ materials[i].times_correct <= materials[i].times_attempted)
    /\ [][(ret'.op = "attempt" /\ ret.op = "none" /\ ~ret'.exc /\ ~ret'.args.is_correct)
            => \A i \in 1..Len(materials) :
                 materials'[i].times_correct = materials[i].times_correct]_vars

\* a material after three attempts, the last
\* call being an incorrect one: of three calls, two were correct
C21_Witness ==
    /\ ret.op = "attempt"
    /\ ~ret.exc
    /\ ~ret.args.is_correct
    /\ \E i \in 1..Len(materials) :
         /\ materials[i].id = ret.args.material_id
         /\ materials[i].times_attempted = 3
         /\ materials[i].times_correct = 2
         /\ materials[i].last_attempted_at = now

\* C27: after any sequence of link and unlink requests the link set has no
\* link from a search space to itself and no two links with the same
\* (source_space_id, target_space_id); a request for a self-link or for a
\* link that exists is rejected and leaves the link set unchanged.
C27_LinksWellFormed ==
    /\ [](\A i \in 1..Len(links) :
            /\ links[i].source_space_id # links[i].target_space_id
            /\ \A j \in 1..Len(links) : links[i] = links[j] => i = j)
    /\ [][(/\ ret.op = "none"
           /\ ret'.op = "link"
           /\ \/ ret'.args.source_space_id = ret'.args.target_space_id
              \/ \E i \in 1..Len(links) :
                   /\ links[i].source_space_id = ret'.args.source_space_id
                   /\ links[i].target_space_id = ret'.args.target_space_id)
            => /\ ret'.status_code # 200
               /\ links' = links]_vars

\* a request by the owner of both search spaces for a link that exists, made
\* while the opposite link exists too, has been answered 400
C27_Witness ==
    /\ ret.op = "link"
    /\ ret.status_code = 400
    /\ Len(links) = 2
    /\ \E i \in 1..Len(links) :
         /\ links[i].source_space_id = ret.args.source_space_id
         /\ links[i].target_space_id = ret.args.target_space_id

\* C28: send_all_activity_reminders attempts a reminder for every (user,
\* search space) row its query returned, each exactly once and in order,
\* whatever fails or raises for another row, and then returns status
\* "success" with total_users equal to the number of rows.
C28_EveryRowAttempted ==
    (reminders.op = "run" /\ reminders.queried) =>
        /\ Len(reminders.attempts) = Len(reminders.rows)
        /\ \A i \in 1..Len(reminders.rows) :
             /\ reminders.attempts[i].user_id = reminders.rows[i].user.id
             /\ reminders.attempts[i].search_space_id
                  = reminders.rows[i].search_space.id
        /\ reminders.result.status = "success"
        /\ reminders.result.total_users = Len(reminders.rows)

\* a run over two rows: building the service for the first one raised, the
\* reminder of the second one was sent
C28_Witness ==
    /\ reminders.op = "run"
    /\ reminders.queried
    /\ Len(reminders.rows) = 2
    /\ ~reminders.attempts[1].called
    /\ reminders.attempts[2].success

\* C22: when two sync calls for the same search space and source system run
\* concurrently in separate transactions and both process the same external
\* record for which no task exists yet, the committed tasks table holds at
\* most one task with that (search_space_id, source_type, external_id).
C22_RaceKeepsUnique ==
    \A i, j \in 1..Len(tasks) :
        (/\ tasks[i].external_id # None
         /\ tasks[i].search_space_id = tasks[j].search_space_id
         /\ tasks[i].source_type = tasks[j].source_type
         /\ tasks[i].external_id = tasks[j].external_id) => i = j

\* C25: POST /tasks/sync-demo keeps the uniqueness of tasks: after any
\* number of calls for a search space no two tasks of that space share the
\* same (source_type, external_id), so a repeated call adds no second task
\* with one of the external ids DEMO-001 .. DEMO-010.
C25_DemoKeepsUnique ==
    \A i, j \in 1..Len(tasks) :
        (/\ tasks[i].search_space_id = tasks[j].search_space_id
         /\ tasks[i].source_type = tasks[j].source_type
         /\ tasks[i].external_id = tasks[j].external_id) => i = j

====
